---- MODULE Spec2Model ----
(***************************************************************************)
(* binary-codec: schema-driven binary decode/encode.                       *)
(*                                                                         *)
(* The module models the codec engine as a state machine:                  *)
(*   - the CodecRegistry (a map from a type name to a codec),              *)
(*   - the codecs raw/number/string/bitset/bitmask/array/object as pure    *)
(*     operators over a byte buffer (a sequence of bytes),                 *)
(*   - static and runtime validation producing path-tagged diagnostics,    *)
(*   - the entry operations deserialize/serialize, stepped through their   *)
(*     statements (validate, processValidationResults, allocate, the       *)
(*     object codec's loop over the root fields, return).                  *)
(*                                                                         *)
(* JavaScript values are tagged records [t |-> typeTag, v |-> payload].    *)
(* A string is the sequence of its code points; a Uint8Array and an        *)
(* ArrayBuffer are sequences of bytes (index 1 of the sequence is byte 0). *)
(***************************************************************************)
EXTENDS Integers, Sequences, FiniteSets, TLC

(***************************************************************************)
(* JavaScript values                                                       *)
(***************************************************************************)
Undef == [t |-> "undefined", v |-> 0]
VNum(n) == [t |-> "number", v |-> n]
VStr(s) == [t |-> "string", v |-> s]
VBool(b) == [t |-> "boolean", v |-> b]
VBytes(b) == [t |-> "bytes", v |-> b]
VArr(a) == [t |-> "array", v |-> a]
VObj(o) == [t |-> "object", v |-> o]

EmptyObj == VObj(<<>>)

\* typeof x
TypeOf(x) ==
  IF x.t \in {"bytes", "array", "object"} THEN "object" ELSE x.t

\* x[k] for a property name k (not an index)
GetProp(x, k) ==
  IF x.t = "object" /\ k \in DOMAIN x.v THEN x.v[k] ELSE Undef

\* x[i] for an index i (0-based)
GetIndex(x, i) ==
  IF x.t \in {"array", "bytes", "string"} /\ i >= 0 /\ i < Len(x.v)
  THEN IF x.t = "array" THEN x.v[i + 1]
       ELSE IF x.t = "bytes" THEN VNum(x.v[i + 1])
       ELSE VStr(<<x.v[i + 1]>>)
  ELSE Undef

\* x.length (-1 stands for undefined)
LengthOf(x) ==
  IF x.t \in {"array", "bytes", "string"} THEN Len(x.v) ELSE -1

\* Boolean(x) for the values of the model
Truthy(x) ==
  CASE x.t = "undefined" -> FALSE
    [] x.t = "boolean" -> x.v
    [] x.t = "number" -> x.v # 0
    [] x.t = "string" -> Len(x.v) > 0
    [] OTHER -> TRUE

Pow2(n) == 2 ^ n

Min(a, b) == IF a < b THEN a ELSE b
Max(a, b) == IF a > b THEN a ELSE b

RECURSIVE DecDigits(_)
\* the decimal digits of n >= 0 as code points
DecDigits(n) ==
  IF n < 10 THEN <<48 + n>> ELSE Append(DecDigits(n \div 10), 48 + (n % 10))

\* String(x) for numbers and strings (what TextEncoder.encode applies to its argument)
ToJSString(x) ==
  CASE x.t = "string" -> x.v
    [] x.t = "number" -> IF x.v < 0 THEN <<45>> \o DecDigits(-x.v) ELSE DecDigits(x.v)
    [] x.t = "boolean" -> IF x.v THEN <<116, 114, 117, 101>> ELSE <<102, 97, 108, 115, 101>>
    [] x.t = "undefined" -> <<>>
    [] OTHER -> <<91, 111, 98, 106, 101, 99, 116>>

\* Number(x) as DataView.setXxx and the bit operators take it; NaN becomes 0 there.
\* The strings of the model are not numeric, so they convert to NaN.
ToIntegerOrZero(x) ==
  CASE x.t = "number" -> x.v
    [] x.t = "boolean" -> IF x.v THEN 1 ELSE 0
    [] OTHER -> 0

(***************************************************************************)
(* 32-bit integer operators of JavaScript                                  *)
(***************************************************************************)
MinInt32 == -2147483647 - 1

\* bit i (0..31) of the two's complement form of the int32 x
BitOf(x, i) == IF i = 31 THEN (IF x < 0 THEN 1 ELSE 0) ELSE (x \div Pow2(i)) % 2

RECURSIVE FromBits(_, _)
\* the int32 whose bits 0..i are given by b
FromBits(b, i) ==
  IF i < 0 THEN 0
  ELSE IF i = 31 THEN (IF b[31] = 1 THEN MinInt32 ELSE 0) + FromBits(b, 30)
  ELSE b[i] * Pow2(i) + FromBits(b, i - 1)

\* a & b
BitAnd(a, b) == FromBits([i \in 0..31 |-> BitOf(a, i) * BitOf(b, i)], 31)

\* a | b
BitOr(a, b) ==
  FromBits([i \in 0..31 |-> IF BitOf(a, i) + BitOf(b, i) > 0 THEN 1 ELSE 0], 31)

\* a << n : the shift count is taken modulo 32, the result wraps to int32
ShiftLeft(a, n) ==
  LET s == n % 32
  IN FromBits([i \in 0..31 |-> IF i >= s THEN BitOf(a, i - s) ELSE 0], 31)

\* a >> n : sign-propagating, the shift count is taken modulo 32
ShiftRight(a, n) ==
  IF n % 32 = 31 THEN (IF a < 0 THEN -1 ELSE 0) ELSE a \div Pow2(n % 32)

\* (1 << n) - 1 as the operand of a bit operator, which takes it to int32:
\* for n = 31 the difference -2^31 - 1 wraps to 2^31 - 1
OnesBelow(n) ==
  IF ShiftLeft(1, n) = MinInt32 THEN -(MinInt32 + 1) ELSE ShiftLeft(1, n) - 1

(***************************************************************************)
(* src/utils/bitUtils.ts                                                   *)
(***************************************************************************)
extractBits(value, start, end) ==
  LET high == Max(start, end)
      low == Min(start, end)
      bitLength == high - low + 1
      mask == OnesBelow(bitLength)
  IN BitAnd(ShiftRight(value, low), mask)

(***************************************************************************)
(* Schema model: src/types.ts                                              *)
(***************************************************************************)
\* A Field with every attribute a codec may look at.  littleEndian is
\* "true", "false" or "undefined"; item is a sequence holding the item
\* description, or the empty sequence when it is missing.
Field(type, name, byteOffset, byteLength) ==
  [type |-> type, name |-> name, byteOffset |-> byteOffset, byteLength |-> byteLength,
   littleEndian |-> "undefined", numberType |-> "uint", trimNull |-> TRUE,
   map |-> <<>>, item |-> <<>>, fields |-> <<>>]

RawField(name, off, len) == Field("raw", name, off, len)
NumberField(name, off, len, numberType) ==
  [Field("number", name, off, len) EXCEPT !.numberType = numberType]
StringField(name, off, len, trimNull) ==
  [Field("string", name, off, len) EXCEPT !.trimNull = trimNull]
BitsetField(name, off, len) == Field("bitset", name, off, len)
BitmaskField(name, off, len, map) ==
  [Field("bitmask", name, off, len) EXCEPT !.map = map]
ArrayField(name, off, len, item) ==
  [Field("array", name, off, len) EXCEPT !.item = <<item>>]
ObjectField(name, off, len, fields) ==
  [Field("object", name, off, len) EXCEPT !.fields = fields]

\* the item of an Array: a field description without name and byteOffset
Item(f) == [f EXCEPT !.name = "", !.byteOffset = 0]
WithEndian(f, le) == [f EXCEPT !.littleEndian = le]

\* one entry of a BitmaskMap; bits is <<position>> or <<high, low>>
BitField(key, bits, type, values) ==
  [key |-> key, bits |-> bits, type |-> type, values |-> values]

\* hasFields is FALSE for a spec object that has no `fields` property at all
CodecSpec(byteLength, littleEndian, fields) ==
  [byteLength |-> byteLength, littleEndian |-> littleEndian, fields |-> fields,
   hasFields |-> TRUE]

\* { byteLength } alone: spec.fields is undefined
CodecSpecWithoutFields(byteLength) ==
  [CodecSpec(byteLength, "undefined", <<>>) EXCEPT !.hasFields = FALSE]

(***************************************************************************)
(* Results of codec calls                                                  *)
(***************************************************************************)
Returned(v) == [err |-> "none", v |-> v]
Thrown(e) == [err |-> e, v |-> Undef]
Written(buf) == [err |-> "none", buf |-> buf]
WriteThrown(e, buf) == [err |-> e, buf |-> buf]

(***************************************************************************)
(* Diagnostics: src/validation/types.ts                                    *)
(***************************************************************************)
FATAL == "fatal"
ERROR == "error"
WARNING == "warning"
INFO == "info"

Diag(level, code, path) == [level |-> level, code |-> code, path |-> path]

RECURSIVE Flatten(_)
\* the concatenation of a sequence of sequences
Flatten(ss) == IF ss = <<>> THEN <<>> ELSE Head(ss) \o Flatten(Tail(ss))

FilterLevel(results, level) == SelectSeq(results, LAMBDA r : r.level = level)

\* what a validate/validateData hook evaluates to when it throws instead of
\* returning; the try/catch around the call turns it into a diagnostic
HookThrew == <<Diag("thrown", "TypeError", "")>>

(***************************************************************************)
(* Buffers: ArrayBuffer, DataView, Uint8Array                              *)
(***************************************************************************)
\* new Uint8Array(buffer, byteOffset, length) is a RangeError unless the
\* region lies inside the buffer
RegionOk(buf, byteOffset, length) ==
  byteOffset >= 0 /\ length >= 0 /\ byteOffset + length <= Len(buf)

\* the bytes buf[byteOffset .. byteOffset+length)
Slice(buf, byteOffset, length) == [i \in 1..length |-> buf[byteOffset + i]]

\* buf with bytes copied in at byteOffset
Splice(buf, byteOffset, bytes) ==
  [i \in 1..Len(buf) |->
     IF i > byteOffset /\ i <= byteOffset + Len(bytes) THEN bytes[i - byteOffset] ELSE buf[i]]

Zeros(n) == [i \in 1..n |-> 0]

(***************************************************************************)
(* Registry: src/registry/registry.ts                                      *)
(***************************************************************************)
\* The codec objects of the program.  upperStringCodec is the override of
\* tests/index.test.ts: stringCodec with a read that upper-cases.
BuiltinCodecs == {"raw", "string", "number", "array", "bitmask", "bitset", "object"}
Codecs == BuiltinCodecs \cup {"upperString"}

\* codec.type
CodecType(codec) == IF codec = "upperString" THEN "string" ELSE codec

\* new CodecRegistry(): the empty map
EmptyRegistry == <<>>

\* an install that keeps the binding a name already has
RegistryInstallKeepFirst(map, codec) ==
  IF CodecType(codec) \in DOMAIN map THEN map
  ELSE [t \in (DOMAIN map) \cup {CodecType(codec)} |->
          IF t = CodecType(codec) THEN codec ELSE map[t]]

\* CodecRegistry.install: map.set(codec.type, codec)
RegistryInstall(map, codec) ==
  [t \in (DOMAIN map) \cup {CodecType(codec)} |->
     IF t = CodecType(codec) THEN codec ELSE map[t]]

\* map.has(type)
RegistryHas(map, type) == type \in DOMAIN map

\* a lookup that falls back to the raw codec for an unknown name
RegistryGetOrRaw(map, type) == IF type \in DOMAIN map THEN map[type] ELSE "raw"

\* CodecRegistry.get: the codec, or "NotFound" for the thrown Error
RegistryGet(map, type) == IF type \in DOMAIN map THEN map[type] ELSE "NotFound"

\* CodecRegistry.listTypes
RegistryListTypes(map) == DOMAIN map

\* src/registry/install.ts: the codecs in the order installAll installs them
InstallAllOrder == <<"raw", "string", "number", "array", "bitmask", "bitset", "object">>

RECURSIVE InstallSeq(_, _)
InstallSeq(map, codecs) ==
  IF codecs = <<>> THEN map
  ELSE InstallSeq(RegistryInstall(map, Head(codecs)), Tail(codecs))

installAll(map) == InstallSeq(map, InstallAllOrder)

(***************************************************************************)
(* numberCodec: src/codecs/number.ts                                       *)
(***************************************************************************)
\* the keys of typeToDataViewMethod
NumberMethods == {<<"uint", 1>>, <<"int", 1>>, <<"uint", 2>>, <<"int", 2>>,
                  <<"uint", 4>>, <<"int", 4>>, <<"float", 4>>}

\* byte k (0 = least significant) of the two's complement form of n
ByteOf(n, k) == (n \div (256 ^ k)) % 256

\* DataView.setUintN / setIntN: the value is wrapped to the width
NumberBytes(n, byteLength, littleEndian) ==
  [i \in 1..byteLength |->
     IF littleEndian THEN ByteOf(n, i - 1) ELSE ByteOf(n, byteLength - i)]

RECURSIVE UintOfBytes(_)
\* the unsigned number of big-endian bytes
UintOfBytes(bytes) ==
  IF bytes = <<>> THEN 0
  ELSE bytes[Len(bytes)] + 256 * UintOfBytes(SubSeq(bytes, 1, Len(bytes) - 1))

Reverse(s) == [i \in 1..Len(s) |-> s[Len(s) + 1 - i]]

\* DataView.getUintN / getIntN
NumberOfBytes(bytes, numberType, littleEndian) ==
  LET be == IF littleEndian THEN Reverse(bytes) ELSE bytes
      top == be[1]
      rest == UintOfBytes(Tail(be))
      scale == 256 ^ (Len(be) - 1)
  IN IF numberType = "int" /\ top >= 128
     THEN (top - 256) * scale + rest
     ELSE top * scale + rest

RECURSIVE Log2Floor(_)
\* the position of the highest set bit of a >= 1
Log2Floor(a) == IF a < 2 THEN 0 ELSE 1 + Log2Floor(a \div 2)

\* DataView.setFloat32 of an integer n: the big-endian bytes of the nearest
\* binary32 number (round to nearest, ties to even)
Float32Bytes(n) ==
  IF n = 0 THEN <<0, 0, 0, 0>>
  ELSE LET s == IF n < 0 THEN 1 ELSE 0
           a == IF n < 0 THEN -n ELSE n
           e == Log2Floor(a)
           shift == e - 23
           q == IF shift <= 0 THEN a * Pow2(-shift) ELSE a \div Pow2(shift)
           r == IF shift <= 0 THEN 0 ELSE a % Pow2(shift)
           half == IF shift <= 0 THEN 1 ELSE Pow2(shift - 1)
           up == shift > 0 /\ (r > half \/ (r = half /\ q % 2 = 1))
           q2 == IF up THEN q + 1 ELSE q
           carry == q2 = Pow2(24)
           E == (IF carry THEN e + 1 ELSE e) + 127
           mant == IF carry THEN 0 ELSE q2 - Pow2(23)
       IN <<s * 128 + (E \div 2), (E % 2) * 128 + (mant \div 65536),
            (mant \div 256) % 256, mant % 256>>

\* DataView.getFloat32 of big-endian bytes: the number when it is an integer
\* below 2^31 in magnitude, otherwise the value is kept as its binary32 bits
Float32Value(be) ==
  LET s == be[1] \div 128
      E == (be[1] % 128) * 2 + (be[2] \div 128)
      mant == (be[2] % 128) * 65536 + be[3] * 256 + be[4]
      m == Pow2(23) + mant
      x == E - 150
      sign == IF s = 1 THEN -1 ELSE 1
  IN IF E = 0 /\ mant = 0 THEN VNum(0)
     ELSE IF E > 0 /\ E < 255 /\ x >= 0 /\ x <= 7 THEN VNum(sign * m * Pow2(x))
     ELSE IF E > 0 /\ E < 255 /\ x < 0 /\ x >= -23 /\ m % Pow2(-x) = 0
     THEN VNum(sign * (m \div Pow2(-x)))
     ELSE [t |-> "number", v |-> <<"float32", be>>]

IsLittle(f) == f.littleEndian = "true"

\* a read that always asks the DataView for big-endian
numberCodec_readBigEndian(buf, f) ==
  IF <<f.numberType, f.byteLength>> \notin NumberMethods THEN Thrown("TypeError")
  ELSE IF ~(f.byteOffset >= 0 /\ f.byteOffset + f.byteLength <= Len(buf))
  THEN Thrown("RangeError")
  ELSE LET bytes == Slice(buf, f.byteOffset, f.byteLength)
       IN IF f.numberType = "float" THEN Returned(Float32Value(bytes))
          ELSE Returned(VNum(NumberOfBytes(bytes, f.numberType, FALSE)))

numberCodec_read(buf, f) ==
  IF <<f.numberType, f.byteLength>> \notin NumberMethods THEN Thrown("TypeError")
  ELSE IF ~(f.byteOffset >= 0 /\ f.byteOffset + f.byteLength <= Len(buf))
  THEN Thrown("RangeError")
  ELSE LET bytes == Slice(buf, f.byteOffset, f.byteLength)
       IN IF f.numberType = "float"
          THEN Returned(Float32Value(IF IsLittle(f) THEN Reverse(bytes) ELSE bytes))
          ELSE Returned(VNum(NumberOfBytes(bytes, f.numberType, IsLittle(f))))

\* a write that always asks the DataView for big-endian
numberCodec_writeBigEndian(buf, f, value) ==
  IF <<f.numberType, f.byteLength>> \notin NumberMethods THEN WriteThrown("TypeError", buf)
  ELSE IF ~(f.byteOffset >= 0 /\ f.byteOffset + f.byteLength <= Len(buf))
  THEN WriteThrown("RangeError", buf)
  ELSE Written(Splice(buf, f.byteOffset,
                      IF f.numberType = "float" THEN Float32Bytes(ToIntegerOrZero(value))
                      ELSE NumberBytes(ToIntegerOrZero(value), f.byteLength, FALSE)))

numberCodec_write(buf, f, value) ==
  IF <<f.numberType, f.byteLength>> \notin NumberMethods THEN WriteThrown("TypeError", buf)
  ELSE IF ~(f.byteOffset >= 0 /\ f.byteOffset + f.byteLength <= Len(buf))
  THEN WriteThrown("RangeError", buf)
  ELSE LET n == ToIntegerOrZero(value)
           fl == Float32Bytes(n)
       IN IF f.numberType = "float"
          THEN Written(Splice(buf, f.byteOffset, IF IsLittle(f) THEN Reverse(fl) ELSE fl))
          ELSE Written(Splice(buf, f.byteOffset, NumberBytes(n, f.byteLength, IsLittle(f))))

numberCodec_validate(f, path) ==
  IF <<f.numberType, f.byteLength>> \notin NumberMethods
  THEN <<Diag(FATAL, "INVALID_NUMBER_TYPE_LENGTH", path)>>
  ELSE <<>>

\* n > 2^bits - 1 and n < -2^bits; the numbers of the model lie in the
\* int32 range, so neither holds from 31 bits on
AbovePow2(n, bits) == bits < 31 /\ n > Pow2(bits) - 1
BelowMinusPow2(n, bits) == bits < 31 /\ n < -Pow2(bits)

numberCodec_validateData(f, data, path) ==
  IF TypeOf(data) # "number"
  THEN <<Diag(FATAL, "INVALID_NUMBER_DATA_TYPE", path)>>
  ELSE IF f.numberType = "uint"
  THEN IF data.v < 0 THEN <<Diag(ERROR, "INVALID_UINT_VALUE", path)>>
       ELSE IF AbovePow2(data.v, f.byteLength * 8)
            THEN <<Diag(ERROR, "UINT_VALUE_OUT_OF_RANGE", path)>>
            ELSE <<>>
  ELSE IF f.numberType = "int"
  THEN IF AbovePow2(data.v, f.byteLength * 8 - 1)
          \/ BelowMinusPow2(data.v, f.byteLength * 8 - 1)
       THEN <<Diag(ERROR, "INT_VALUE_OUT_OF_RANGE", path)>>
       ELSE <<>>
  ELSE <<>>

(***************************************************************************)
(* rawCodec: src/codecs/raw.ts                                             *)
(***************************************************************************)
\* a read through buffer.slice, which clamps to the buffer instead of throwing
rawCodec_readClamped(buf, f) ==
  LET from == Min(Max(f.byteOffset, 0), Len(buf))
      to == Min(Max(f.byteOffset + f.byteLength, from), Len(buf))
  IN Returned(VBytes(Slice(buf, from, to - from)))

rawCodec_read(buf, f) ==
  IF ~RegionOk(buf, f.byteOffset, f.byteLength) THEN Thrown("RangeError")
  ELSE Returned(VBytes(Slice(buf, f.byteOffset, f.byteLength)))

\* new Uint8Array(view.buffer, byteOffset, value.length).set(value):
\* the region is as long as the VALUE; a value without length makes the
\* region run to the end of the buffer, and set() copies the value's indexed
\* elements (none for a number, a boolean or a plain object)
\* a write that copies what fits and drops the rest
rawCodec_writeTruncating(buf, f, value) ==
  IF value.t = "undefined" THEN WriteThrown("TypeError", buf)
  ELSE LET n == Min(Max(LengthOf(value), 0), Max(Len(buf) - f.byteOffset, 0))
       IN Written(Splice(buf, f.byteOffset,
                         [i \in 1..n |-> ToIntegerOrZero(GetIndex(value, i - 1)) % 256]))

rawCodec_write(buf, f, value) ==
  IF value.t = "undefined" THEN WriteThrown("TypeError", buf)
  ELSE LET n == LengthOf(value)
           regionLen == IF n < 0 THEN Len(buf) - f.byteOffset ELSE n
           elems == IF n < 0 THEN <<>>
                    ELSE [i \in 1..n |-> ToIntegerOrZero(GetIndex(value, i - 1)) % 256]
       IN IF ~RegionOk(buf, f.byteOffset, regionLen) THEN WriteThrown("RangeError", buf)
          ELSE Written(Splice(buf, f.byteOffset, elems))

rawCodec_validate(f, path) ==
  IF f.byteLength <= 0
  THEN <<Diag(FATAL, "INVALID_RAW_LENGTH", path \o ".byteLength")>>
  ELSE <<>>

rawCodec_validateData(f, data, path) ==
  IF data.t # "bytes" THEN <<Diag(FATAL, "INVALID_RAW_DATA_TYPE", path)>>
  ELSE IF Len(data.v) # f.byteLength
  THEN <<Diag(ERROR, "RAW_DATA_LENGTH_MISMATCH", path)>>
  ELSE <<>>

(***************************************************************************)
(* Text encoding: TextEncoder / TextDecoder('utf-8', {fatal: false})       *)
(***************************************************************************)
REPLACEMENT == 65533
BOM == 65279

\* the UTF-8 bytes of one code point; a lone surrogate encodes as U+FFFD
Utf8OfCodePoint(cp) ==
  IF cp < 128 THEN <<cp>>
  ELSE IF cp < 2048 THEN <<192 + (cp \div 64), 128 + (cp % 64)>>
  ELSE IF cp >= 55296 /\ cp <= 57343 THEN <<239, 191, 189>>
  ELSE IF cp < 65536
  THEN <<224 + (cp \div 4096), 128 + ((cp \div 64) % 64), 128 + (cp % 64)>>
  ELSE <<240 + (cp \div 262144), 128 + ((cp \div 4096) % 64),
         128 + ((cp \div 64) % 64), 128 + (cp % 64)>>

\* TextEncoder.encode
TextEncode(text) == Flatten([i \in 1..Len(text) |-> Utf8OfCodePoint(text[i])])

RECURSIVE Utf8Decode(_, _, _, _, _, _, _)
\* The WHATWG UTF-8 decoder from byte index i on: needed/seen count the
\* continuation bytes of the sequence in progress, cp accumulates its code
\* point, [lower, upper] is the range allowed for the next byte.  An invalid
\* byte ends the sequence with U+FFFD and is then decoded again on its own.
Utf8Decode(bytes, i, needed, seen, cp, lower, upper) ==
  IF i > Len(bytes) THEN (IF needed # 0 THEN <<REPLACEMENT>> ELSE <<>>)
  ELSE LET b == bytes[i]
       IN IF needed = 0
          THEN IF b < 128 THEN <<b>> \o Utf8Decode(bytes, i + 1, 0, 0, 0, 128, 191)
               ELSE IF b >= 194 /\ b <= 223
               THEN Utf8Decode(bytes, i + 1, 1, 0, b % 32, 128, 191)
               ELSE IF b >= 224 /\ b <= 239
               THEN Utf8Decode(bytes, i + 1, 2, 0, b % 16,
                               IF b = 224 THEN 160 ELSE 128, IF b = 237 THEN 159 ELSE 191)
               ELSE IF b >= 240 /\ b <= 244
               THEN Utf8Decode(bytes, i + 1, 3, 0, b % 8,
                               IF b = 240 THEN 144 ELSE 128, IF b = 244 THEN 143 ELSE 191)
               ELSE <<REPLACEMENT>> \o Utf8Decode(bytes, i + 1, 0, 0, 0, 128, 191)
          ELSE IF b < lower \/ b > upper
          THEN <<REPLACEMENT>> \o Utf8Decode(bytes, i, 0, 0, 0, 128, 191)
          ELSE IF seen + 1 = needed
          THEN <<cp * 64 + (b % 64)>> \o Utf8Decode(bytes, i + 1, 0, 0, 0, 128, 191)
          ELSE Utf8Decode(bytes, i + 1, needed, seen + 1, cp * 64 + (b % 64), 128, 191)

\* TextDecoder.decode with ignoreBOM: false, which drops a leading U+FEFF
TextDecode(bytes) ==
  LET cps == Utf8Decode(bytes, 1, 0, 0, 0, 128, 191)
  IN IF cps # <<>> /\ cps[1] = BOM THEN Tail(cps) ELSE cps

RECURSIVE TrimTrailingNulls(_)
\* text.replace(/\0+$/, '')
TrimTrailingNulls(text) ==
  IF text # <<>> /\ text[Len(text)] = 0
  THEN TrimTrailingNulls(SubSeq(text, 1, Len(text) - 1))
  ELSE text

(***************************************************************************)
(* stringCodec: src/codecs/string.ts                                       *)
(***************************************************************************)
\* read resolves 'raw' through the resolver and decodes the bytes it returns
stringCodec_read(map, buf, f) ==
  IF RegistryGet(map, "raw") = "NotFound" THEN Thrown("NotFound")
  ELSE LET bytes == rawCodec_read(buf, f)
       IN IF bytes.err # "none" THEN bytes
          ELSE LET text == TextDecode(bytes.v.v)
               IN Returned(VStr(IF f.trimNull THEN TrimTrailingNulls(text) ELSE text))

\* the upper-casing override of tests/index.test.ts (ASCII letters)
ToUpperCase(text) ==
  [i \in 1..Len(text) |-> IF text[i] >= 97 /\ text[i] <= 122 THEN text[i] - 32 ELSE text[i]]

upperStringCodec_read(map, buf, f) ==
  LET base == stringCodec_read(map, buf, f)
  IN IF base.err # "none" THEN base ELSE Returned(VStr(ToUpperCase(base.v.v)))

\* a write without target.fill(0): the old bytes stay behind the text
stringCodec_writeNoFill(buf, f, value) ==
  LET bytes == TextEncode(ToJSString(value))
      slice == SubSeq(bytes, 1, Min(Len(bytes), Max(f.byteLength, 0)))
  IN IF ~RegionOk(buf, f.byteOffset, f.byteLength) THEN WriteThrown("RangeError", buf)
     ELSE Written(Splice(buf, f.byteOffset, slice))

\* write: encode, truncate to byteLength, zero-fill the target, copy
stringCodec_write(buf, f, value) ==
  LET bytes == TextEncode(ToJSString(value))
      slice == SubSeq(bytes, 1, Min(Len(bytes), Max(f.byteLength, 0)))
  IN IF ~RegionOk(buf, f.byteOffset, f.byteLength) THEN WriteThrown("RangeError", buf)
     ELSE Written(Splice(Splice(buf, f.byteOffset, Zeros(f.byteLength)), f.byteOffset, slice))

\* only the encoding is validated; the model's fields all use utf-8
stringCodec_validate(f, path) == <<>>

stringCodec_validateData(f, data, path) ==
  IF TypeOf(data) # "string" THEN <<Diag(FATAL, "INVALID_STRING_DATA_TYPE", path)>>
  ELSE IF Len(TextEncode(data.v)) > f.byteLength
  THEN <<Diag(WARNING, "STRING_TOO_LONG", path)>>
  ELSE <<>>

(***************************************************************************)
(* bitsetCodec: src/codecs/bitset.ts                                       *)
(***************************************************************************)
\* the number field the bitset codec reads and writes one byte with
BitsetByte(f, byteIndex) ==
  [Field("number", "", f.byteOffset + byteIndex, 1) EXCEPT !.numberType = "uint"]

RECURSIVE bitsetReadLoop(_, _, _, _)
bitsetReadLoop(buf, f, i, acc) ==
  IF i >= f.byteLength * 8 THEN Returned(VArr(acc))
  ELSE LET byte == numberCodec_read(buf, BitsetByte(f, i \div 8))
       IN IF byte.err # "none" THEN byte
          ELSE bitsetReadLoop(buf, f, i + 1,
                              Append(acc, VBool(BitAnd(ShiftRight(byte.v.v, i % 8), 1) # 0)))

bitsetCodec_read(map, buf, f) ==
  IF f.byteLength * 8 > 0 /\ RegistryGet(map, "number") = "NotFound" THEN Thrown("NotFound")
  ELSE bitsetReadLoop(buf, f, 0, <<>>)

RECURSIVE bitsetZeroLoop(_, _, _)
\* the first loop of write: set all bytes to 0
bitsetZeroLoop(buf, f, i) ==
  IF i >= f.byteLength THEN Written(buf)
  ELSE LET w == numberCodec_write(buf, BitsetByte(f, i), VNum(0))
       IN IF w.err # "none" THEN w ELSE bitsetZeroLoop(w.buf, f, i + 1)

RECURSIVE bitsetSetLoop(_, _, _, _)
\* the second loop of write: read-modify-write for every truthy value[i]
bitsetSetLoop(buf, f, value, i) ==
  IF i >= f.byteLength * 8 THEN Written(buf)
  ELSE IF ~Truthy(GetIndex(value, i)) THEN bitsetSetLoop(buf, f, value, i + 1)
  ELSE LET pre == numberCodec_read(buf, BitsetByte(f, i \div 8))
       IN IF pre.err # "none" THEN WriteThrown(pre.err, buf)
          ELSE LET w == numberCodec_write(buf, BitsetByte(f, i \div 8),
                                          VNum(BitOr(pre.v.v, ShiftLeft(1, i % 8))))
               IN IF w.err # "none" THEN w ELSE bitsetSetLoop(w.buf, f, value, i + 1)

\* a write without the first loop: the bits are set over the old contents
bitsetCodec_writeNoClear(map, buf, f, value) ==
  IF f.byteLength > 0 /\ RegistryGet(map, "number") = "NotFound"
  THEN WriteThrown("NotFound", buf)
  ELSE IF f.byteLength > 0 /\ value.t = "undefined" THEN WriteThrown("TypeError", buf)
  ELSE bitsetSetLoop(buf, f, value, 0)

bitsetCodec_write(map, buf, f, value) ==
  IF f.byteLength > 0 /\ RegistryGet(map, "number") = "NotFound"
  THEN WriteThrown("NotFound", buf)
  ELSE LET z == bitsetZeroLoop(buf, f, 0)
       IN IF z.err # "none" THEN z
          ELSE IF f.byteLength > 0 /\ value.t = "undefined" THEN WriteThrown("TypeError", z.buf)
          ELSE bitsetSetLoop(z.buf, f, value, 0)

bitsetCodec_validate(f, path) ==
  IF f.byteLength <= 0
  THEN <<Diag(FATAL, "INVALID_BITSET_LENGTH", path \o ".byteLength")>>
  ELSE <<>>

bitsetCodec_validateData(f, data, path) ==
  IF data.t # "array" THEN <<Diag(FATAL, "INVALID_BITSET_DATA_TYPE", path)>>
  ELSE (IF Len(data.v) # f.byteLength * 8
        THEN <<Diag(ERROR, "BITSET_LENGTH_MISMATCH", path)>> ELSE <<>>)
       \o Flatten([i \in 1..Len(data.v) |->
                     IF TypeOf(data.v[i]) # "boolean"
                     THEN <<Diag(ERROR, "INVALID_BITSET_ELEMENT_TYPE",
                                 path \o "[" \o ToString(i - 1) \o "]")>>
                     ELSE <<>>])

(***************************************************************************)
(* bitmaskCodec: src/codecs/bitmask.ts                                     *)
(***************************************************************************)
\* the number field the bitmask codec reads and writes its integer with
BitmaskNumber(f) ==
  [Field("number", "", f.byteOffset, f.byteLength) EXCEPT
     !.numberType = "uint",
     !.littleEndian = IF f.littleEndian = "undefined" THEN "false" ELSE f.littleEndian]

extractBitValue(value, bits) ==
  IF Len(bits) = 2 THEN extractBits(value, bits[1], bits[2])
  ELSE BitAnd(ShiftRight(value, bits[1]), 1)

\* values[bitValue]
EnumAt(values, index) ==
  IF index >= 0 /\ index < Len(values) THEN VStr(values[index + 1]) ELSE Undef

\* the value one map entry decodes to
extractBitField(value, config) ==
  LET bitValue == extractBitValue(value, config.bits)
  IN IF config.type = "boolean" THEN VBool(bitValue # 0)
     ELSE IF config.type = "enum" THEN EnumAt(config.values, bitValue)
     ELSE VNum(bitValue)

RECURSIVE extractBitFields(_, _)
\* a later entry with the same key overrides an earlier one
extractBitFields(value, map) ==
  IF map = <<>> THEN <<>>
  ELSE LET last == map[Len(map)]
       IN (last.key :> extractBitField(value, last))
          @@ extractBitFields(value, SubSeq(map, 1, Len(map) - 1))

\* values.indexOf(fieldValue)
RECURSIVE IndexOfFrom(_, _, _)
IndexOfFrom(values, x, i) ==
  IF i > Len(values) THEN -1
  ELSE IF x.t = "string" /\ values[i] = x.v THEN i - 1
  ELSE IndexOfFrom(values, x, i + 1)

IndexOf(values, x) == IndexOfFrom(values, x, 1)

\* the contribution of one map entry to the combined integer
combineBitField(total, fieldValue, bitField) ==
  IF fieldValue.t = "undefined" THEN total
  ELSE LET numericVal == IF bitField.type = "uint" THEN ToIntegerOrZero(fieldValue)
                         ELSE IF bitField.type = "boolean" THEN ToIntegerOrZero(fieldValue)
                         ELSE IF bitField.type = "enum" THEN IndexOf(bitField.values, fieldValue)
                         ELSE 0
           high == bitField.bits[1]
           low == IF Len(bitField.bits) = 1 THEN bitField.bits[1] ELSE bitField.bits[2]
           bitWidth == high - low + 1
           maxAllowed == OnesBelow(bitWidth)
           safeValue == BitAnd(numericVal, maxAllowed)
       IN BitOr(total, ShiftLeft(safeValue, low))

RECURSIVE combineFrom(_, _, _, _)
combineFrom(value, map, i, total) ==
  IF i > Len(map) THEN total
  ELSE combineFrom(value, map, i + 1,
                   combineBitField(total, GetProp(value, map[i].key), map[i]))

combineBitFields(value, map) == combineFrom(value, map, 1, 0)

bitmaskCodec_read(map, buf, f) ==
  IF RegistryGet(map, "number") = "NotFound" THEN Thrown("NotFound")
  ELSE LET bitmaskValue == numberCodec_read(buf, BitmaskNumber(f))
       IN IF bitmaskValue.err # "none" THEN bitmaskValue
          ELSE Returned(VObj(extractBitFields(bitmaskValue.v.v, f.map)))

bitmaskCodec_write(map, buf, f, value) ==
  IF value.t = "undefined" /\ f.map # <<>> THEN WriteThrown("TypeError", buf)
  ELSE IF RegistryGet(map, "number") = "NotFound" THEN WriteThrown("NotFound", buf)
  ELSE numberCodec_write(buf, BitmaskNumber(f), VNum(combineBitFields(value, f.map)))

bitmaskValidateEntry(f, bitField, path) ==
  LET maxBits == f.byteLength * 8
      bitFieldPath == path \o ".map." \o bitField.key
  IN IF Len(bitField.bits) = 2
     THEN LET high == bitField.bits[1]
              low == bitField.bits[2]
              bitWidth == high - low + 1
          IN (IF high >= maxBits \/ low >= maxBits
              THEN <<Diag(FATAL, "BIT_OUT_OF_RANGE", bitFieldPath)>> ELSE <<>>)
             \o (IF high < low
                 THEN <<Diag(ERROR, "INVALID_BIT_RANGE", bitFieldPath)>> ELSE <<>>)
             \o (IF bitField.type = "enum" /\ Len(bitField.values) > ShiftLeft(1, bitWidth)
                 THEN <<Diag(ERROR, "TOO_MANY_ENUM_VALUES", bitFieldPath)>> ELSE <<>>)
     ELSE IF bitField.bits[1] >= maxBits
          THEN <<Diag(FATAL, "BIT_OUT_OF_RANGE", bitFieldPath)>> ELSE <<>>

bitmaskCodec_validate(f, path) ==
  Flatten([i \in 1..Len(f.map) |-> bitmaskValidateEntry(f, f.map[i], path)])

bitmaskValidateDataEntry(bitField, value, fieldPath) ==
  IF value.t = "undefined" THEN <<>>
  ELSE IF bitField.type = "boolean"
  THEN IF TypeOf(value) # "boolean"
       THEN <<Diag(ERROR, "INVALID_BOOLEAN_FIELD", fieldPath)>> ELSE <<>>
  ELSE IF bitField.type = "uint"
  THEN IF TypeOf(value) # "number" \/ value.v < 0
       THEN <<Diag(ERROR, "INVALID_UINT_FIELD", fieldPath)>>
       ELSE LET bitWidth == IF Len(bitField.bits) = 2
                            THEN bitField.bits[1] - bitField.bits[2] + 1 ELSE 1
                maxValue == ShiftLeft(1, bitWidth) - 1
            IN IF ShiftLeft(1, bitWidth) = MinInt32 \/ value.v > maxValue
               THEN <<Diag(ERROR, "VALUE_OUT_OF_RANGE", fieldPath)>> ELSE <<>>
  ELSE IF bitField.type = "enum"
  THEN IF TypeOf(value) # "string"
       THEN <<Diag(ERROR, "INVALID_ENUM_FIELD_TYPE", fieldPath)>>
       ELSE IF IndexOf(bitField.values, value) < 0
       THEN <<Diag(ERROR, "INVALID_ENUM_VALUE", fieldPath)>> ELSE <<>>
  ELSE <<>>

bitmaskCodec_validateData(f, data, path) ==
  IF TypeOf(data) # "object" THEN <<Diag(FATAL, "INVALID_BITMASK_DATA_TYPE", path)>>
  ELSE Flatten([i \in 1..Len(f.map) |->
                  bitmaskValidateDataEntry(f.map[i], GetProp(data, f.map[i].key),
                                           path \o "." \o f.map[i].key)])

(***************************************************************************)
(* Dispatch through the resolver: codec.read / write / validate /          *)
(* validateData of the codec the registry binds to a type                  *)
(***************************************************************************)
RECURSIVE CodecRead(_, _, _, _)
RECURSIVE CodecWrite(_, _, _, _, _)
RECURSIVE CodecValidate(_, _, _, _)
RECURSIVE CodecValidateData(_, _, _, _, _)

(***************************************************************************)
(* arrayCodec: src/codecs/array.ts                                         *)
(***************************************************************************)
\* the number of iterations of `for (i = 0; i < byteLength / itemByteLength; i++)`;
\* -1 when the quotient is Infinity
ArrayCount(byteLength, itemByteLength) ==
  IF itemByteLength = 0 THEN (IF byteLength > 0 THEN -1 ELSE 0)
  ELSE IF (byteLength > 0) # (itemByteLength > 0) THEN 0
  ELSE LET a == IF byteLength < 0 THEN -byteLength ELSE byteLength
           b == IF itemByteLength < 0 THEN -itemByteLength ELSE itemByteLength
       IN (a + b - 1) \div b

\* byteLength / itemByteLength when it is an integer, else -1 (no array has that length)
ArrayExpectedLength(byteLength, itemByteLength) ==
  IF itemByteLength # 0 /\ byteLength % itemByteLength = 0 /\ byteLength \div itemByteLength >= 0
  THEN byteLength \div itemByteLength
  ELSE -1

\* {...item, byteOffset: itemByteOffset}: the item keeps its own littleEndian
ArrayItemAt(f, i) == [f.item[1] EXCEPT !.byteOffset = f.byteOffset + i * f.item[1].byteLength]

RECURSIVE arrayReadLoop(_, _, _, _, _, _)
arrayReadLoop(map, buf, f, count, i, acc) ==
  IF count >= 0 /\ i >= count THEN Returned(VArr(acc))
  ELSE IF count < 0 /\ i >= 1 THEN Thrown("NonTermination")
  ELSE LET codec == RegistryGet(map, f.item[1].type)
       IN IF codec = "NotFound" THEN Thrown("NotFound")
          ELSE LET r == CodecRead(codec, map, buf, ArrayItemAt(f, i))
               IN IF r.err # "none" THEN r
                  ELSE arrayReadLoop(map, buf, f, count, i + 1, Append(acc, r.v))

arrayCodec_read(map, buf, f) ==
  IF f.item = <<>> THEN Thrown("TypeError")
  ELSE arrayReadLoop(map, buf, f, ArrayCount(f.byteLength, f.item[1].byteLength), 0, <<>>)

RECURSIVE arrayWriteLoop(_, _, _, _, _, _)
\* An endless loop writes value[i]; past the end of the value every
\* iteration writes undefined at the same place, so one more decides.
arrayWriteLoop(map, buf, f, value, count, i) ==
  IF count >= 0 /\ i >= count THEN Written(buf)
  ELSE IF count < 0 /\ i > Max(LengthOf(value), 0) THEN WriteThrown("NonTermination", buf)
  ELSE LET codec == RegistryGet(map, f.item[1].type)
       IN IF codec = "NotFound" THEN WriteThrown("NotFound", buf)
          ELSE LET w == CodecWrite(codec, map, buf, ArrayItemAt(f, i), GetIndex(value, i))
               IN IF w.err # "none" THEN w
                  ELSE arrayWriteLoop(map, w.buf, f, value, count, i + 1)

arrayCodec_write(map, buf, f, value) ==
  IF f.item = <<>> THEN WriteThrown("TypeError", buf)
  ELSE LET count == ArrayCount(f.byteLength, f.item[1].byteLength)
       IN IF count # 0 /\ value.t = "undefined" /\ RegistryHas(map, f.item[1].type)
          THEN WriteThrown("TypeError", buf)
          ELSE arrayWriteLoop(map, buf, f, value, count, 0)

\* result.path ? `${prefix}${result.path}` : prefix
AdjustPaths(results, prefix) ==
  [i \in 1..Len(results) |-> [results[i] EXCEPT !.path = prefix \o results[i].path]]

arrayCodec_validate(map, f, path) ==
  IF f.item = <<>> THEN <<Diag(FATAL, "MISSING_ARRAY_ITEM", path \o ".item")>>
  ELSE IF f.item[1].byteLength <= 0
  THEN <<Diag(FATAL, "INVALID_ARRAY_ITEM_LENGTH", path \o ".item.byteLength")>>
  ELSE (IF f.byteLength % f.item[1].byteLength # 0
        THEN <<Diag(WARNING, "ARRAY_LENGTH_NOT_DIVISIBLE", path)>> ELSE <<>>)
       \o (LET codec == RegistryGet(map, f.item[1].type)
           IN IF codec = "NotFound"
              THEN <<Diag(FATAL, "UNKNOWN_ARRAY_ITEM_TYPE", path \o ".item.type")>>
              ELSE AdjustPaths(CodecValidate(codec, map, [f.item[1] EXCEPT !.name = "arrayItem"], ""),
                               path \o ".item"))

arrayCodec_validateData(map, f, data, path) ==
  IF data.t # "array" THEN <<Diag(FATAL, "INVALID_ARRAY_DATA_TYPE", path)>>
  ELSE IF f.item = <<>> THEN HookThrew
  ELSE (IF Len(data.v) # ArrayExpectedLength(f.byteLength, f.item[1].byteLength)
        THEN <<Diag(ERROR, "ARRAY_LENGTH_MISMATCH", path)>> ELSE <<>>)
       \o Flatten([i \in 1..Len(data.v) |->
            LET itemPath == path \o "[" \o ToString(i - 1) \o "]"
                codec == RegistryGet(map, f.item[1].type)
            IN IF codec = "NotFound"
               THEN <<Diag(FATAL, "UNKNOWN_ARRAY_ITEM_TYPE_DATA", itemPath)>>
               ELSE LET r == CodecValidateData(codec, map,
                                               [f.item[1] EXCEPT !.name = "arrayItem"],
                                               data.v[i], itemPath)
                    IN IF r = HookThrew
                       THEN <<Diag(FATAL, "UNKNOWN_ARRAY_ITEM_TYPE_DATA", itemPath)>>
                       ELSE r])

(***************************************************************************)
(* objectCodec: src/codecs/object.ts                                       *)
(***************************************************************************)
\* the spec a field's codec is called with:
\* {...field, byteOffset: BaseByteOffset + byteOffset,
\*  littleEndian: field.littleEndian !== undefined ? field.littleEndian : littleEndian}
\* a field spec that forgets the container's byte order
ObjectFieldSpecOwnOnly(spec, field) ==
  [field EXCEPT !.byteOffset = spec.byteOffset + field.byteOffset]

ObjectFieldSpec(spec, field) ==
  [field EXCEPT
     !.byteOffset = spec.byteOffset + field.byteOffset,
     !.littleEndian = IF field.littleEndian # "undefined" THEN field.littleEndian
                      ELSE IF spec.littleEndian = "undefined" THEN "false"
                      ELSE spec.littleEndian]

\* one iteration of the loop of read
objectReadField(map, buf, spec, field) ==
  LET codec == RegistryGet(map, field.type)
  IN IF codec = "NotFound" THEN Thrown("NotFound")
     ELSE CodecRead(codec, map, buf, ObjectFieldSpec(spec, field))

RECURSIVE objectReadLoop(_, _, _, _, _)
objectReadLoop(map, buf, spec, i, result) ==
  IF i > Len(spec.fields) THEN Returned(VObj(result))
  ELSE LET r == objectReadField(map, buf, spec, spec.fields[i])
       IN IF r.err # "none" THEN r
          ELSE objectReadLoop(map, buf, spec, i + 1, (spec.fields[i].name :> r.v) @@ result)

objectCodec_read(map, buf, spec) == objectReadLoop(map, buf, spec, 1, <<>>)

\* a write that clears the span of a field the value lacks
objectWriteFieldZeroFilling(map, buf, spec, field, value) ==
  IF value.t = "undefined" THEN WriteThrown("TypeError", buf)
  ELSE IF GetProp(value, field.name).t = "undefined"
       THEN IF RegionOk(buf, spec.byteOffset + field.byteOffset, field.byteLength)
            THEN Written(Splice(buf, spec.byteOffset + field.byteOffset, Zeros(field.byteLength)))
            ELSE Written(buf)
  ELSE LET codec == RegistryGet(map, field.type)
       IN IF codec = "NotFound" THEN WriteThrown("NotFound", buf)
          ELSE CodecWrite(codec, map, buf, [field EXCEPT
                 !.byteOffset = spec.byteOffset + field.byteOffset,
                 !.littleEndian = IF field.littleEndian # "undefined" THEN field.littleEndian
                                  ELSE IF spec.littleEndian = "undefined" THEN "false"
                                  ELSE spec.littleEndian],
                 GetProp(value, field.name))

\* one iteration of the loop of write; value[name] of undefined is a TypeError
objectWriteField(map, buf, spec, field, value) ==
  IF value.t = "undefined" THEN WriteThrown("TypeError", buf)
  ELSE IF GetProp(value, field.name).t = "undefined" THEN Written(buf)
  ELSE LET codec == RegistryGet(map, field.type)
       IN IF codec = "NotFound" THEN WriteThrown("NotFound", buf)
          ELSE CodecWrite(codec, map, buf, ObjectFieldSpec(spec, field),
                          GetProp(value, field.name))

RECURSIVE objectWriteLoop(_, _, _, _, _)
objectWriteLoop(map, buf, spec, value, i) ==
  IF i > Len(spec.fields) THEN Written(buf)
  ELSE LET w == objectWriteField(map, buf, spec, spec.fields[i], value)
       IN IF w.err # "none" THEN w
          ELSE objectWriteLoop(map, w.buf, spec, value, i + 1)

objectCodec_write(map, buf, spec, value) == objectWriteLoop(map, buf, spec, value, 1)

objectValidateField(map, f, field, index, path) ==
  LET fieldPath == path \o ".fields[" \o ToString(index) \o "]"
      codec == RegistryGet(map, field.type)
  IN (IF field.byteOffset + field.byteLength > f.byteLength
      THEN <<Diag(FATAL, "OBJECT_FIELD_OUT_OF_BOUNDS", fieldPath)>> ELSE <<>>)
     \o (IF codec = "NotFound"
         THEN <<Diag(FATAL, "UNKNOWN_FIELD_TYPE", fieldPath \o ".type")>>
         ELSE AdjustPaths(CodecValidate(codec, map, field, ""), fieldPath))

objectCodec_validate(map, f, path) ==
  (IF Len(f.fields) = 0
   THEN <<Diag(WARNING, "EMPTY_OBJECT_FIELDS", path \o ".fields")>> ELSE <<>>)
  \o Flatten([i \in 1..Len(f.fields) |-> objectValidateField(map, f, f.fields[i], i - 1, path)])

objectValidateDataField(map, field, dataObj, path) ==
  LET fieldPath == IF path # "" THEN path \o "." \o field.name ELSE field.name
      fieldValue == GetProp(dataObj, field.name)
      codec == RegistryGet(map, field.type)
  IN IF fieldValue.t = "undefined"
     THEN <<Diag(WARNING, "MISSING_OBJECT_FIELD_DATA", fieldPath)>>
     ELSE IF codec = "NotFound"
     THEN <<Diag(FATAL, "UNKNOWN_FIELD_TYPE_DATA", fieldPath \o ".type")>>
     ELSE LET r == CodecValidateData(codec, map, field, fieldValue, fieldPath)
          IN IF r = HookThrew
             THEN <<Diag(FATAL, "UNKNOWN_FIELD_TYPE_DATA", fieldPath \o ".type")>>
             ELSE r

\* Object.keys(x): the property names of an object, the indices of an array
KeysOf(x) ==
  IF x.t = "object" THEN DOMAIN x.v
  ELSE IF x.t \in {"array", "bytes"} THEN {ToString(i - 1) : i \in 1..Len(x.v)}
  ELSE {}

\* the keys of the data that no field is named after
ExtraKeys(fields, dataObj) ==
  {k \in KeysOf(dataObj) : \A i \in 1..Len(fields) : fields[i].name # k}

RECURSIVE SetToSeq(_)
SetToSeq(S) == IF S = {} THEN <<>> ELSE LET e == CHOOSE e \in S : TRUE
                                        IN <<e>> \o SetToSeq(S \ {e})

objectCodec_validateData(map, f, data, path) ==
  IF TypeOf(data) # "object" THEN <<Diag(FATAL, "INVALID_OBJECT_DATA_TYPE", path)>>
  ELSE Flatten([i \in 1..Len(f.fields) |-> objectValidateDataField(map, f.fields[i], data, path)])
       \o (LET extra == SetToSeq(ExtraKeys(f.fields, data))
           IN [i \in 1..Len(extra) |->
                 Diag(INFO, "EXTRA_OBJECT_FIELD_DATA",
                      IF path # "" THEN path \o "." \o extra[i] ELSE extra[i])])

(***************************************************************************)
(* The dispatch itself                                                     *)
(***************************************************************************)
CodecRead(codec, map, buf, f) ==
  CASE codec = "raw" -> rawCodec_read(buf, f)
    [] codec = "number" -> numberCodec_read(buf, f)
    [] codec = "string" -> stringCodec_read(map, buf, f)
    [] codec = "upperString" -> upperStringCodec_read(map, buf, f)
    [] codec = "bitset" -> bitsetCodec_read(map, buf, f)
    [] codec = "bitmask" -> bitmaskCodec_read(map, buf, f)
    [] codec = "array" -> arrayCodec_read(map, buf, f)
    [] codec = "object" -> objectCodec_read(map, buf, f)

CodecWrite(codec, map, buf, f, value) ==
  CASE codec = "raw" -> rawCodec_write(buf, f, value)
    [] codec = "number" -> numberCodec_write(buf, f, value)
    [] codec \in {"string", "upperString"} -> stringCodec_write(buf, f, value)
    [] codec = "bitset" -> bitsetCodec_write(map, buf, f, value)
    [] codec = "bitmask" -> bitmaskCodec_write(map, buf, f, value)
    [] codec = "array" -> arrayCodec_write(map, buf, f, value)
    [] codec = "object" -> objectCodec_write(map, buf, f, value)

CodecValidate(codec, map, f, path) ==
  CASE codec = "raw" -> rawCodec_validate(f, path)
    [] codec = "number" -> numberCodec_validate(f, path)
    [] codec \in {"string", "upperString"} -> stringCodec_validate(f, path)
    [] codec = "bitset" -> bitsetCodec_validate(f, path)
    [] codec = "bitmask" -> bitmaskCodec_validate(f, path)
    [] codec = "array" -> arrayCodec_validate(map, f, path)
    [] codec = "object" -> objectCodec_validate(map, f, path)

CodecValidateData(codec, map, f, data, path) ==
  CASE codec = "raw" -> rawCodec_validateData(f, data, path)
    [] codec = "number" -> numberCodec_validateData(f, data, path)
    [] codec \in {"string", "upperString"} -> stringCodec_validateData(f, data, path)
    [] codec = "bitset" -> bitsetCodec_validateData(f, data, path)
    [] codec = "bitmask" -> bitmaskCodec_validateData(f, data, path)
    [] codec = "array" -> arrayCodec_validateData(map, f, data, path)
    [] codec = "object" -> objectCodec_validateData(map, f, data, path)

(***************************************************************************)
(* Validation: src/validation/validator.ts                                 *)
(***************************************************************************)
validateBasicSpec(spec) ==
  IF ~spec.hasFields THEN <<Diag(FATAL, "MISSING_FIELDS", "fields")>>
  ELSE IF spec.byteLength <= 0 THEN <<Diag(FATAL, "INVALID_BYTE_LENGTH", "byteLength")>>
  ELSE <<>>

\* the basic checks without the bounds check
validateBasicFieldNoBounds(field, path, spec) ==
  (IF field.name = "" THEN <<Diag(FATAL, "MISSING_FIELD_NAME", path \o ".name")>> ELSE <<>>)
  \o (IF field.byteOffset < 0
      THEN <<Diag(FATAL, "NEGATIVE_OFFSET", path \o ".byteOffset")>> ELSE <<>>)
  \o (IF field.byteLength <= 0
      THEN <<Diag(FATAL, "INVALID_FIELD_LENGTH", path \o ".byteLength")>> ELSE <<>>)

\* a bounds check that also rejects a field ending exactly at the boundary
validateBasicFieldInclusive(field, path, spec) ==
  validateBasicFieldNoBounds(field, path, spec)
  \o (IF field.byteOffset + field.byteLength >= spec.byteLength
      THEN <<Diag(FATAL, "FIELD_OUT_OF_BOUNDS", path)>> ELSE <<>>)

validateBasicField(field, path, spec) ==
  (IF field.name = "" THEN <<Diag(FATAL, "MISSING_FIELD_NAME", path \o ".name")>> ELSE <<>>)
  \o (IF field.byteOffset < 0
      THEN <<Diag(FATAL, "NEGATIVE_OFFSET", path \o ".byteOffset")>> ELSE <<>>)
  \o (IF field.byteLength <= 0
      THEN <<Diag(FATAL, "INVALID_FIELD_LENGTH", path \o ".byteLength")>> ELSE <<>>)
  \o (IF field.byteOffset + field.byteLength > spec.byteLength
      THEN <<Diag(FATAL, "FIELD_OUT_OF_BOUNDS", path)>> ELSE <<>>)

\* the pairs (i, j), i < j, in the order of the two nested loops
RECURSIVE PairsFrom(_, _, _)
PairsFrom(n, i, j) ==
  IF i > n THEN <<>>
  ELSE IF j > n THEN PairsFrom(n, i + 1, i + 2)
  ELSE <<<<i, j>>>> \o PairsFrom(n, i, j + 1)

FieldsOverlap(field1, field2) ==
  field1.byteOffset < field2.byteOffset + field2.byteLength
  /\ field2.byteOffset < field1.byteOffset + field1.byteLength

\* an overlap check that also reports two fields that only touch
validateFieldInteractionsTouching(fields) ==
  LET pairs == PairsFrom(Len(fields), 1, 2)
  IN Flatten([k \in 1..Len(pairs) |->
        IF /\ fields[pairs[k][1]].byteOffset
                <= fields[pairs[k][2]].byteOffset + fields[pairs[k][2]].byteLength
           /\ fields[pairs[k][2]].byteOffset
                <= fields[pairs[k][1]].byteOffset + fields[pairs[k][1]].byteLength
        THEN <<Diag(WARNING, "FIELD_OVERLAP",
                    "fields[" \o ToString(pairs[k][1] - 1) \o "], fields["
                    \o ToString(pairs[k][2] - 1) \o "]")>>
        ELSE <<>>])
     \o Flatten([i \in 1..Len(fields) |->
        IF \E j \in 1..(i - 1) : fields[j].name = fields[i].name
        THEN <<Diag(ERROR, "DUPLICATE_FIELD_NAME", "fields[" \o ToString(i - 1) \o "].name")>>
        ELSE <<>>])

validateFieldInteractions(fields) ==
  LET pairs == PairsFrom(Len(fields), 1, 2)
  IN Flatten([k \in 1..Len(pairs) |->
        IF FieldsOverlap(fields[pairs[k][1]], fields[pairs[k][2]])
        THEN <<Diag(WARNING, "FIELD_OVERLAP",
                    "fields[" \o ToString(pairs[k][1] - 1) \o "], fields["
                    \o ToString(pairs[k][2] - 1) \o "]")>>
        ELSE <<>>])
     \o Flatten([i \in 1..Len(fields) |->
        IF \E j \in 1..(i - 1) : fields[j].name = fields[i].name
        THEN <<Diag(ERROR, "DUPLICATE_FIELD_NAME", "fields[" \o ToString(i - 1) \o "].name")>>
        ELSE <<>>])

\* the per-field part of validateCodecSpec: the basic checks, then the
\* codec's own validate, or UNKNOWN_FIELD_TYPE when the lookup throws
\* a catch block that swallows the failed lookup
validateSpecFieldSilent(spec, map, field, index) ==
  LET path == "fields[" \o ToString(index) \o "]"
      codec == RegistryGet(map, field.type)
  IN validateBasicField(field, path, spec)
     \o (IF codec = "NotFound" THEN <<>> ELSE CodecValidate(codec, map, field, path))

validateSpecField(spec, map, field, index) ==
  LET path == "fields[" \o ToString(index) \o "]"
      codec == RegistryGet(map, field.type)
  IN validateBasicField(field, path, spec)
     \o (IF codec = "NotFound"
         THEN <<Diag(FATAL, "UNKNOWN_FIELD_TYPE", path \o ".type")>>
         ELSE CodecValidate(codec, map, field, path))

\* spec.fields.forEach(...) follows validateBasicSpec unguarded: without a
\* fields array it throws a TypeError and no list is returned
validateCodecSpec(spec, map) ==
  IF ~spec.hasFields THEN HookThrew
  ELSE validateBasicSpec(spec)
       \o Flatten([i \in 1..Len(spec.fields) |->
                     validateSpecField(spec, map, spec.fields[i], i - 1)])
       \o validateFieldInteractions(spec.fields)

\* the spec as the object field validateRuntimeData and the entries hand to
\* the object codec: {...codecSpec, byteOffset: 0, littleEndian}
RootObject(spec) ==
  [Field("object", "", 0, spec.byteLength) EXCEPT
     !.fields = spec.fields,
     !.littleEndian = IF spec.littleEndian = "undefined" THEN "false" ELSE spec.littleEndian]

\* a data validation that looks at nothing
validateRuntimeDataSkipped(spec, data, map) == <<>>

\* an object hook that returns at the first field that yields a Fatal
RECURSIVE validateDataUntilFatal(_, _, _, _, _)
validateDataUntilFatal(map, f, data, i, acc) ==
  IF i > Len(f.fields) \/ (\E n \in 1..Len(acc) : acc[n].level = FATAL) THEN acc
  ELSE validateDataUntilFatal(map, f, data, i + 1,
                              acc \o objectValidateDataField(map, f.fields[i], data, ""))

validateRuntimeDataFirstFatal(spec, data, map) ==
  IF RegistryGet(map, "object") = "NotFound" THEN HookThrew
  ELSE IF TypeOf(data) # "object" THEN <<Diag(FATAL, "INVALID_OBJECT_DATA_TYPE", "")>>
  ELSE validateDataUntilFatal(map, RootObject(spec), data, 1, <<>>)

\* validateRuntimeData for a CodecSpec: registry.get('object') is outside
\* any try, so a registry without 'object' makes it throw
validateRuntimeData(spec, data, map) ==
  IF RegistryGet(map, "object") = "NotFound" THEN HookThrew
  ELSE objectCodec_validateData(map, RootObject(spec), data, "")

\* a size check against the extent of the fields instead of spec.byteLength
validateBufferSizeByFields(spec, buffer) ==
  IF \E i \in 1..Len(spec.fields) :
       Len(buffer) < spec.fields[i].byteOffset + spec.fields[i].byteLength
  THEN <<Diag(FATAL, "BUFFER_TOO_SMALL", "buffer")>>
  ELSE <<>>

validateBufferSize(spec, buffer) ==
  IF Len(buffer) < spec.byteLength THEN <<Diag(FATAL, "BUFFER_TOO_SMALL", "buffer")>>
  ELSE <<>>

\* a processing that throws whatever throwOnFatal says
processValidationResultsAlwaysThrowing(results, throwOnFatal, hasOnValidation) ==
  IF Len(results) = 0 THEN [sink |-> <<>>, thrown |-> <<>>]
  ELSE [sink |-> IF hasOnValidation THEN <<results>> ELSE <<>>,
        thrown |-> FilterLevel(results, FATAL)]

\* a processing that hands the callback the Fatal results only
processValidationResultsFatalToSink(results, throwOnFatal, hasOnValidation) ==
  IF Len(results) = 0 THEN [sink |-> <<>>, thrown |-> <<>>]
  ELSE [sink |-> IF hasOnValidation THEN <<FilterLevel(results, FATAL)>> ELSE <<>>,
        thrown |-> IF Len(FilterLevel(results, FATAL)) > 0 /\ throwOnFatal
                   THEN FilterLevel(results, FATAL) ELSE <<>>]

\* a processing that throws for Error diagnostics as it does for Fatal ones
processValidationResultsThrowingOnError(results, throwOnFatal, hasOnValidation) ==
  LET severe == SelectSeq(results, LAMBDA r : r.level \in {FATAL, ERROR})
  IN IF Len(results) = 0 THEN [sink |-> <<>>, thrown |-> <<>>]
     ELSE [sink |-> IF hasOnValidation THEN <<results>> ELSE <<>>,
           thrown |-> IF Len(severe) > 0 /\ throwOnFatal THEN severe ELSE <<>>]

\* processValidationResults: what is handed to onValidation (a sequence of
\* calls, each with its argument) and the results the ValidationError
\* carries (the empty sequence when nothing is thrown)
processValidationResults(results, throwOnFatal, hasOnValidation) ==
  IF Len(results) = 0 THEN [sink |-> <<>>, thrown |-> <<>>]
  ELSE [sink |-> IF hasOnValidation THEN <<results>> ELSE <<>>,
        thrown |-> IF Len(FilterLevel(results, FATAL)) > 0 /\ throwOnFatal
                   THEN FilterLevel(results, FATAL) ELSE <<>>]

(***************************************************************************)
(* The specs, values and buffers the calls are made with                   *)
(***************************************************************************)
Hello == <<72, 101, 108, 108, 111>>
Hi == <<72, 105>>
U8(name, off) == NumberField(name, off, 1, "uint")
U16(name, off) == NumberField(name, off, 2, "uint")
I16(name, off) == NumberField(name, off, 2, "int")
Bools(b) == VArr([i \in 1..Len(b) |-> VBool(b[i] = 1)])

StatusMap ==
  <<BitField("flag", <<7>>, "boolean", <<>>),
    BitField("mode", <<6, 5>>, "enum", <<<<65>>, <<66>>, <<67>>>>),
    BitField("cnt", <<4, 0>>, "uint", <<>>)>>

\* one entry: a spec, the values it is encoded with, the buffers it is decoded from
Entry(spec, values, buffers) == [spec |-> spec, values |-> values, buffers |-> buffers]

Catalog ==
  << \* 1: the end-to-end scenario: a status byte and a greeting
     Entry(CodecSpec(6, "undefined", <<U8("status", 0), StringField("greeting", 1, 5, TRUE)>>),
           <<VObj([status |-> VNum(42), greeting |-> VStr(Hello)]),
             VObj([status |-> VStr(<<120>>), greeting |-> VStr(Hi)]),
             VObj([status |-> VNum(42)]),
             VObj([status |-> VNum(42), greeting |-> VStr(<<72, 105, 0>>)])>>,
           <<<<42, 72, 101, 108, 108, 111>>, <<42, 72>>>>),
     \* 2: a little-endian spec with a big-endian override, a raw and a bitset field
     Entry(CodecSpec(6, "true", <<U16("a", 0), WithEndian(I16("b", 2), "false"),
                                  RawField("r", 4, 1), BitsetField("bits", 5, 1)>>),
           <<VObj([a |-> VNum(4660), b |-> VNum(-2), r |-> VBytes(<<7>>),
                   bits |-> Bools(<<0, 1, 0, 0, 1, 1, 0, 1>>)]),
             VObj([a |-> VNum(70000), b |-> VNum(1), r |-> VBytes(<<1, 2>>),
                   bits |-> VNum(3)]),
             VObj([a |-> VNum(1), b |-> VNum(1), r |-> VBytes(<<1, 2, 3>>)])>>,
           <<<<52, 18, 255, 254, 7, 178>>>>),
     \* 3: a bitmask and a signed byte
     Entry(CodecSpec(2, "undefined", <<BitmaskField("m", 0, 1, StatusMap),
                                       NumberField("n", 1, 1, "int")>>),
           <<VObj([m |-> VObj([flag |-> VBool(TRUE), mode |-> VStr(<<67>>), cnt |-> VNum(5)]),
                   n |-> VNum(-1)]),
             VObj([m |-> VObj([flag |-> VBool(TRUE)]), n |-> VNum(1)]),
             VObj([m |-> VArr(<<>>), n |-> VNum(1)])>>,
           <<<<197, 255>>, <<224, 0>>>>),
     \* 4: a bit range written low-first (high < low)
     Entry(CodecSpec(1, "undefined",
                     <<BitmaskField("m", 0, 1, <<BitField("a", <<2, 5>>, "uint", <<>>)>>)>>),
           <<VObj([m |-> VObj([a |-> VNum(3)])])>>,
           <<<<96>>>>),
     \* 5: a bit position beyond the field
     Entry(CodecSpec(1, "undefined",
                     <<BitmaskField("m", 0, 1, <<BitField("a", <<9>>, "boolean", <<>>)>>)>>),
           <<VObj([m |-> VObj([a |-> VBool(TRUE)])])>>,
           <<<<1>>>>),
     \* 6: a field of a type no codec has
     Entry(CodecSpec(2, "undefined", <<U8("a", 0), Field("foo", "b", 1, 1)>>),
           <<VObj([a |-> VNum(1), b |-> VNum(2)]), VObj([a |-> VNum(1)])>>,
           <<<<1, 2>>>>),
     \* 7..13: one field of each kind reaching past the end of a 4-byte spec
     Entry(CodecSpec(4, "undefined", <<NumberField("f", 2, 4, "uint")>>),
           <<VObj([f |-> VNum(1)])>>, <<<<1, 2, 3, 4>>>>),
     Entry(CodecSpec(4, "undefined", <<StringField("f", 2, 4, TRUE)>>),
           <<VObj([f |-> VStr(Hi)])>>, <<<<1, 2, 3, 4>>>>),
     Entry(CodecSpec(4, "undefined", <<RawField("f", 2, 4)>>),
           <<VObj([f |-> VBytes(<<9>>)]), VObj([f |-> VBytes(<<9, 8, 7, 6>>)])>>,
           <<<<1, 2, 3, 4>>>>),
     Entry(CodecSpec(4, "undefined", <<BitsetField("f", 3, 2)>>),
           <<VObj([f |-> Bools(<<1, 0, 0, 0, 0, 0, 0, 0, 1, 0, 0, 0, 0, 0, 0, 0>>)])>>,
           <<<<1, 2, 3, 4>>>>),
     Entry(CodecSpec(4, "undefined",
                     <<BitmaskField("f", 3, 2, <<BitField("a", <<0>>, "boolean", <<>>)>>)>>),
           <<VObj([f |-> VObj([a |-> VBool(TRUE)])])>>, <<<<1, 2, 3, 4>>>>),
     Entry(CodecSpec(4, "undefined", <<ArrayField("f", 2, 4, Item(U16("", 0)))>>),
           <<VObj([f |-> VArr(<<VNum(1), VNum(2)>>)])>>, <<<<1, 2, 3, 4>>>>),
     Entry(CodecSpec(4, "undefined", <<ObjectField("f", 2, 4, <<U8("x", 3)>>)>>),
           <<VObj([f |-> VObj([x |-> VNum(1)])]), VObj([f |-> EmptyObj])>>,
           <<<<1, 2, 3, 4>>>>),
     \* 14: a nested object and an array inside a little-endian spec
     Entry(CodecSpec(4, "true",
                     <<ObjectField("hdr", 0, 3, <<U16("id", 0), StringField("tag", 2, 1, FALSE)>>),
                       ArrayField("arr", 3, 1, Item(U8("", 0)))>>),
           <<VObj([hdr |-> VObj([id |-> VNum(258), tag |-> VStr(<<65>>)]),
                   arr |-> VArr(<<VNum(7)>>)]),
             VObj([hdr |-> VObj([id |-> VStr(<<120>>), tag |-> VStr(<<65>>)]),
                   arr |-> VArr(<<VNum(7)>>)]),
             VObj([hdr |-> VObj([id |-> VNum(1), tag |-> VStr(<<>>)]),
                   arr |-> VArr(<<VNum(7)>>)])>>,
           <<<<2, 1, 65, 7>>>>),
     \* 15: a nested field past the end of its object but inside the buffer
     Entry(CodecSpec(4, "undefined", <<ObjectField("o", 0, 2, <<U16("x", 1)>>)>>),
           <<VObj([o |-> VObj([x |-> VNum(258)])])>>,
           <<<<1, 2, 3, 4>>>>),
     \* 16: unregistered types below the root: in an object and as an array item
     Entry(CodecSpec(2, "undefined",
                     <<ObjectField("o", 0, 1, <<Field("foo", "q", 0, 1)>>),
                       ArrayField("arr", 1, 1, Item(Field("foo", "", 0, 1)))>>),
           <<VObj([o |-> VObj([q |-> VNum(1)]), arr |-> VArr(<<VNum(1)>>)]),
             VObj([o |-> EmptyObj])>>,
           <<<<1, 2>>>>),
     \* 17: two root fields that overlap
     Entry(CodecSpec(2, "undefined", <<U16("a", 0), U8("b", 1)>>),
           <<VObj([a |-> VNum(258), b |-> VNum(9)])>>,
           <<<<1, 2>>>>),
     \* 18: the same overlap one level down
     Entry(CodecSpec(2, "undefined", <<ObjectField("o", 0, 2, <<U16("a", 0), U8("b", 1)>>)>>),
           <<VObj([o |-> VObj([a |-> VNum(258), b |-> VNum(9)])])>>,
           <<<<1, 2>>>>),
     \* 19: a spec longer than its only field needs
     Entry(CodecSpec(4, "undefined", <<U8("a", 0)>>),
           <<VObj([a |-> VNum(5)]), VObj([a |-> VNum(5), zz |-> VNum(1)])>>,
           <<<<5>>, <<5, 0, 0, 0>>>>),
     \* 20: an array whose only item is longer than the array and ends past the buffer
     Entry(CodecSpec(4, "undefined", <<ArrayField("arr", 3, 1, Item(U16("", 0)))>>),
           <<VObj([arr |-> VArr(<<VNum(1)>>)])>>,
           <<<<1, 2, 3, 4>>>>),
     \* 21: a 32-bit float, given a value it holds exactly and one it rounds
     Entry(CodecSpec(4, "undefined", <<NumberField("x", 0, 4, "float")>>),
           <<VObj([x |-> VNum(-3)]), VObj([x |-> VNum(16777217)])>>,
           <<<<63, 128, 0, 0>>>>),
     \* 22: a raw field and an array of one 16-bit item, each one byte long,
     \* with free bytes after them
     Entry(CodecSpec(4, "undefined", <<RawField("r", 0, 1),
                                       ArrayField("arr", 2, 1, Item(U16("", 0)))>>),
           <<VObj([r |-> VBytes(<<7>>)]),
             VObj([r |-> VBytes(<<1, 2>>)]),
             VObj([arr |-> VArr(<<VNum(258)>>)])>>,
           <<<<7, 0, 1, 2>>>>),
     \* 23: one field of each kind, given values of the wrong type
     Entry(CodecSpec(10, "undefined",
                     <<U8("count", 0), StringField("title", 1, 2, TRUE),
                       BitmaskField("flags", 3, 1, <<BitField("active", <<0>>, "boolean", <<>>)>>),
                       RawField("data", 4, 1), BitsetField("mask", 5, 1),
                       ObjectField("hdr", 6, 2, <<U16("id", 0)>>),
                       ArrayField("arr", 8, 2, Item(U8("", 0)))>>),
           <<VObj([count |-> VNum(1), title |-> VStr(Hi),
                   flags |-> VObj([active |-> VBool(TRUE)]), data |-> VBytes(<<7>>),
                   mask |-> Bools(<<1, 0, 0, 0, 0, 0, 0, 0>>),
                   hdr |-> VObj([id |-> VNum(258)]), arr |-> VArr(<<VNum(1), VNum(2)>>)]),
             VObj([count |-> VStr(<<120>>), title |-> VNum(123), flags |-> VStr(<<120>>),
                   data |-> VArr(<<VNum(1)>>), mask |-> VStr(<<120>>),
                   hdr |-> VObj([id |-> VStr(<<120>>)]),
                   arr |-> VArr(<<VStr(<<120>>), VNum(2)>>)]),
             VObj([count |-> VNum(1), title |-> VNum(5), hdr |-> VNum(7), arr |-> VNum(3)])>>,
           <<<<1, 72, 105, 128, 7, 1, 1, 2, 1, 2>>>>),
     \* 24: a spec of one string
     Entry(CodecSpec(2, "undefined", <<StringField("s", 0, 2, TRUE)>>),
           <<VObj([s |-> VStr(Hi)])>>,
           <<<<72, 105>>>>),
     \* 25: an array of two one-byte objects
     Entry(CodecSpec(2, "undefined",
                     <<ArrayField("list", 0, 2, Item(ObjectField("", 0, 1, <<U8("v", 0)>>)))>>),
           <<VObj([list |-> VArr(<<VObj([v |-> VNum(1)]), VObj([v |-> VNum(2)])>>)]),
             VObj([list |-> VArr(<<VObj([v |-> VNum(1)])>>)])>>,
           <<<<1, 2>>>>),
     \* 26: an array whose item is itself an array
     Entry(CodecSpec(4, "undefined",
                     <<ArrayField("grid", 0, 4, Item(ArrayField("", 0, 2, Item(U8("", 0)))))>>),
           <<VObj([grid |-> VArr(<<VArr(<<VNum(1), VNum(2)>>), VArr(<<VNum(3), VNum(4)>>)>>)])>>,
           <<<<1, 2, 3, 4>>>>),
     \* 27: an array whose item is a string of no bytes
     Entry(CodecSpec(1, "undefined",
                     <<ArrayField("arr", 0, 1, Item(StringField("", 0, 0, TRUE)))>>),
           <<VObj([arr |-> VArr(<<>>)])>>,
           <<<<0>>>>),
     \* 28: enum bit fields of one, two and two bits with three, five and four names
     Entry(CodecSpec(1, "undefined",
                     <<BitmaskField("m", 0, 1,
                         <<BitField("st", <<0>>, "enum", <<<<65>>, <<66>>, <<67>>>>),
                           BitField("lvl", <<2, 1>>, "enum",
                                    <<<<65>>, <<66>>, <<67>>, <<68>>, <<69>>>>),
                           BitField("ok", <<4, 3>>, "enum",
                                    <<<<65>>, <<66>>, <<67>>, <<68>>>>)>>)>>),
           <<VObj([m |-> VObj([st |-> VStr(<<66>>), lvl |-> VStr(<<67>>), ok |-> VStr(<<68>>)])])>>,
           <<<<29>>>>),
     \* 29: a spec with an empty field list
     Entry(CodecSpec(2, "undefined", <<>>), <<EmptyObj>>, <<<<1, 2>>>>),
     \* 30: a spec with no field list at all
     Entry(CodecSpecWithoutFields(2), <<EmptyObj>>, <<<<1, 2>>>>),
     \* 31: a spec of no bytes
     Entry(CodecSpec(0, "undefined", <<U8("a", 0)>>), <<VObj([a |-> VNum(1)])>>, <<<<1>>>>),
     \* 32: a bit range as wide as a 4-byte field
     Entry(CodecSpec(4, "undefined",
                     <<BitmaskField("m", 0, 4, <<BitField("w", <<31, 0>>, "uint", <<>>)>>)>>),
           <<VObj([m |-> VObj([w |-> VNum(5)])])>>,
           <<<<0, 0, 0, 5>>>>)
  >>

(***************************************************************************)
(* State                                                                   *)
(***************************************************************************)
VARIABLES
  registry,  \* CodecRegistry.map of the registry the calls are handed
  base,      \* how the registry was constructed: "empty" or "default"
  log,       \* the codecs installed since construction, oldest first
  call       \* the decode/encode calls in progress, one record per caller

vars == <<registry, base, log, call>>

\* the number of install calls a host makes after constructing the registry
MaxInstalls == 2

\* the codecs a host installs after construction
InstallableCodecs == {"string", "upperString", "object"}

Callers == {1, 2}

IdleCall ==
  [pc |-> "idle", op |-> "none", sid |-> 0, iid |-> 0,
   validate |-> FALSE, throwOnFatal |-> FALSE, hasSink |-> FALSE,
   diags |-> <<>>, sink |-> <<>>, buf |-> <<>>, idx |-> 0, result |-> <<>>,
   error |-> "none", thrown |-> <<>>, accessed |-> 0, allocated |-> FALSE,
   reg0 |-> <<>>, field |-> <<>>, value |-> Undef, before |-> <<>>, turn |-> 0]

CallSpec(k) == Catalog[k.sid].spec
CallValue(k) == Catalog[k.sid].values[k.iid]
CallBuffer(k) == Catalog[k.sid].buffers[k.iid]

\* src/registry/default.ts: the registry getDefaultRegistry() builds
getDefaultRegistry == installAll(EmptyRegistry)

Init ==
  /\ base \in {"empty", "default"}
  /\ registry = IF base = "default" THEN getDefaultRegistry ELSE EmptyRegistry
  /\ log = <<>>
  /\ call = [c \in Callers |-> IdleCall]

NoCallRunning == \A c \in Callers : call[c].pc = "idle"

(***************************************************************************)
(* registry.install(codec), between calls                                  *)
(***************************************************************************)
Install(codec) ==
  /\ NoCallRunning
  /\ Len(log) < MaxInstalls
  /\ registry' = RegistryInstall(registry, codec)
  /\ log' = Append(log, codec)
  /\ UNCHANGED <<base, call>>

(***************************************************************************)
(* deserialize / serialize: src/entries/index.ts                           *)
(***************************************************************************)
\* the call is made: the options are destructured
Begin(c, op, sid, iid, validate, throwOnFatal, hasSink) ==
  /\ call[c].pc = "idle"
  /\ call' = [call EXCEPT ![c] =
       [IdleCall EXCEPT !.pc = IF validate THEN "validate" ELSE "alloc",
                        !.op = op, !.sid = sid, !.iid = iid,
                        !.validate = validate, !.throwOnFatal = throwOnFatal,
                        !.hasSink = hasSink, !.reg0 = registry]]
  /\ UNCHANGED <<registry, base, log>>

\* a call failing with the error e
Fail(k, e) == [k EXCEPT !.pc = "failed", !.error = e]

\* validateCodecSpec, then validateBufferSize or validateRuntimeData, merged
ValidateStep(k, map) ==
  LET staticResults == validateCodecSpec(CallSpec(k), map)
      second == IF k.op = "decode" THEN validateBufferSize(CallSpec(k), CallBuffer(k))
                ELSE validateRuntimeData(CallSpec(k), CallValue(k), map)
  IN IF staticResults = HookThrew THEN Fail(k, "TypeError")
     ELSE IF second = HookThrew THEN Fail(k, "NotFound")
     ELSE [k EXCEPT !.pc = "notify", !.diags = staticResults \o second]

Validate(c) ==
  /\ call[c].pc = "validate"
  /\ call' = [call EXCEPT ![c] = ValidateStep(call[c], registry)]
  /\ UNCHANGED <<registry, base, log>>

\* processValidationResults, first half: the callback
NotifyStep(k) ==
  [k EXCEPT !.pc = "check",
            !.sink = k.sink \o processValidationResults(k.diags, k.throwOnFatal, k.hasSink).sink]

Notify(c) ==
  /\ call[c].pc = "notify"
  /\ call' = [call EXCEPT ![c] = NotifyStep(call[c])]
  /\ UNCHANGED <<registry, base, log>>

\* processValidationResults, second half: throw the ValidationError or return
CheckStep(k) ==
  LET thrown == processValidationResults(k.diags, k.throwOnFatal, k.hasSink).thrown
  IN IF thrown # <<>> THEN [Fail(k, "ValidationError") EXCEPT !.thrown = thrown]
     ELSE [k EXCEPT !.pc = "alloc"]

CheckFatal(c) ==
  /\ call[c].pc = "check"
  /\ call' = [call EXCEPT ![c] = CheckStep(call[c])]
  /\ UNCHANGED <<registry, base, log>>

\* new Uint8Array(byteLength) / new DataView(...), then registry.get('object');
\* the object codec's `for (const field of fields)` is a TypeError at once
\* when the spec has no fields
AllocStep(k, map) ==
  IF k.op = "encode" /\ CallSpec(k).byteLength < 0 THEN Fail(k, "RangeError")
  ELSE LET k2 == [k EXCEPT !.allocated = TRUE,
                           !.buf = IF k.op = "encode" THEN Zeros(CallSpec(k).byteLength)
                                   ELSE CallBuffer(k)]
       IN IF RegistryGet(map, "object") = "NotFound" THEN Fail(k2, "NotFound")
          ELSE IF ~CallSpec(k).hasFields THEN Fail(k2, "TypeError")
          ELSE [k2 EXCEPT !.pc = "fields", !.idx = 1]

\* an allocation step that runs installAll on the registry again
AllocReinstalling(c) ==
  /\ call[c].pc = "alloc"
  /\ call' = [call EXCEPT ![c] = AllocStep(call[c], registry)]
  /\ registry' = installAll(registry)
  /\ UNCHANGED <<base, log>>

Alloc(c) ==
  /\ call[c].pc = "alloc"
  /\ call' = [call EXCEPT ![c] = AllocStep(call[c], registry)]
  /\ UNCHANGED <<registry, base, log>>

\* one iteration of the object codec's loop over the root fields.  When the
\* field's codec runs a loop whose bound is Infinity and whose iterations all
\* succeed, the iteration never ends: the call stays inside it ("looping"),
\* and every further step is one more round of that loop at the same place
\* (turn is the loop index modulo 2).
FieldStepOf(k, map) ==
  LET field == CallSpec(k).fields[k.idx]
      root == RootObject(CallSpec(k))
  IN IF k.pc = "looping" THEN [k EXCEPT !.turn = (k.turn + 1) % 2]
     ELSE IF k.op = "decode"
     THEN LET r == objectReadField(map, k.buf, root, field)
          IN IF r.err = "NonTermination"
             THEN [k EXCEPT !.pc = "looping", !.accessed = k.accessed + 1]
             ELSE IF r.err # "none" THEN [Fail(k, r.err) EXCEPT !.accessed = k.accessed + 1]
             ELSE [k EXCEPT !.idx = k.idx + 1, !.accessed = k.accessed + 1,
                            !.result = (field.name :> r.v) @@ k.result]
     ELSE LET w == objectWriteField(map, k.buf, root, field, CallValue(k))
              skipped == GetProp(CallValue(k), field.name).t = "undefined"
              n == IF skipped THEN k.accessed ELSE k.accessed + 1
          IN IF w.err = "NonTermination"
             THEN [k EXCEPT !.pc = "looping", !.buf = w.buf, !.accessed = n]
             ELSE IF w.err # "none" THEN [Fail(k, w.err) EXCEPT !.buf = w.buf, !.accessed = n]
             ELSE [k EXCEPT !.idx = k.idx + 1, !.buf = w.buf, !.accessed = n]

FieldStep(c) ==
  /\ call[c].pc \in {"fields", "looping"}
  /\ call[c].idx <= Len(CallSpec(call[c]).fields)
  /\ call' = [call EXCEPT ![c] = FieldStepOf(call[c], registry)]
  /\ UNCHANGED <<registry, base, log>>

\* the loop is over: the value or the buffer is returned
Return(c) ==
  /\ call[c].pc = "fields"
  /\ call[c].idx > Len(CallSpec(call[c]).fields)
  /\ call' = [call EXCEPT ![c].pc = "done"]
  /\ UNCHANGED <<registry, base, log>>

\* the caller has taken the outcome
Finish(c) ==
  /\ call[c].pc \in {"done", "failed"}
  /\ call' = [call EXCEPT ![c] = IdleCall]
  /\ UNCHANGED <<registry, base, log>>

BeginAny(c) ==
  \E sid \in 1..Len(Catalog), validate \in BOOLEAN, throwOnFatal \in BOOLEAN,
     hasSink \in BOOLEAN :
    \/ \E iid \in 1..Len(Catalog[sid].buffers) :
         Begin(c, "decode", sid, iid, validate, throwOnFatal, hasSink)
    \/ \E iid \in 1..Len(Catalog[sid].values) :
         Begin(c, "encode", sid, iid, validate, throwOnFatal, hasSink)

Step(c) ==
  \/ Validate(c)
  \/ Notify(c)
  \/ CheckFatal(c)
  \/ Alloc(c)
  \/ FieldStep(c)
  \/ Return(c)
  \/ Finish(c)

\* JavaScript runs a call to completion: one caller at a time
Next ==
  \/ \E codec \in InstallableCodecs : Install(codec)
  \/ BeginAny(1)
  \/ Step(1)

Spec == Init /\ [][Next]_vars

(***************************************************************************)
(* Calls in flight together.  A call is synchronous, so on one thread the  *)
(* calls run one after the other; here the steps of two calls interleave    *)
(* freely, which covers every schedule a host could produce.  Codecs are    *)
(* installed only while no call is running.                                 *)
(***************************************************************************)
\* the number of install calls made between the concurrent calls
MaxConcInstalls == 1

\* the specs the concurrent calls are made with: the end-to-end scenario and
\* the spec with a field of unregistered type
ConcEntries == {1, 6}

InstallBetweenCalls(codec) ==
  /\ NoCallRunning
  /\ Len(log) < MaxConcInstalls
  /\ registry' = RegistryInstall(registry, codec)
  /\ log' = Append(log, codec)
  /\ UNCHANGED <<base, call>>

BeginConc(c) ==
  \E sid \in ConcEntries, validate \in BOOLEAN :
    \/ \E iid \in 1..Len(Catalog[sid].buffers) :
         Begin(c, "decode", sid, iid, validate, TRUE, TRUE)
    \/ \E iid \in 1..Len(Catalog[sid].values) :
         Begin(c, "encode", sid, iid, validate, TRUE, TRUE)

NextConc ==
  \/ \E codec \in {"string", "upperString"} : InstallBetweenCalls(codec)
  \/ \E c \in Callers : BeginConc(c)
  \/ \E c \in Callers : Step(c)

SpecConc == Init /\ [][NextConc]_vars

(***************************************************************************)
(* Codecs called directly on a DataView, as tests/codecs/*.test.ts do:     *)
(* codec.read(view, field, resolver) and codec.write(view, field, value,   *)
(* resolver).  The view covers a buffer that already holds data.           *)
(***************************************************************************)
\* the buffers the views cover, four bytes each
DirectBuffers ==
  {<<a, b, c, d>> : a \in {0, 255}, b \in {0, 255}, c \in {0, 255}, d \in {0, 255}}
    \cup {<<1, 2, 3, 4>>, <<52, 18, 18, 52>>}

Case(field, values) == [field |-> field, values |-> values]

Texts ==
  <<VStr(Hi), VStr(Hello), VStr(<<>>), VStr(<<72>>), VStr(<<233>>), VStr(<<72, 8364>>),
    VStr(<<BOM, 72>>)>>

DirectCases ==
  << \* 1..3: 16-bit numbers, little-endian, unmarked and big-endian
     Case(WithEndian(U16("n", 0), "true"), <<VNum(4660), VNum(1)>>),
     Case(U16("n", 1), <<VNum(4660)>>),
     Case(WithEndian(U16("n", 2), "false"), <<VNum(4660)>>),
     \* 4, 5: bitsets of one and two bytes
     Case(BitsetField("b", 1, 1),
          <<Bools(<<0, 1, 0, 0, 1, 1, 0, 1>>), Bools(<<0, 0, 0, 0, 0, 0, 0, 0>>),
            Bools(<<1, 1, 1, 1, 1, 1, 1, 1>>)>>),
     Case(BitsetField("b", 2, 2),
          <<Bools(<<1, 0, 0, 0, 0, 0, 0, 0, 0, 0, 0, 0, 0, 0, 1, 1>>), Bools(<<1, 1, 1>>)>>),
     \* 6, 7: strings, trimmed and not; the texts are shorter than the field,
     \* as long, longer, and cut inside a character
     Case(StringField("s", 0, 2, TRUE), Texts),
     Case(StringField("s", 1, 3, FALSE), Texts),
     \* 8, 9: objects whose fields inherit or override the byte order
     Case(WithEndian(ObjectField("o", 0, 4, <<U16("x", 0), WithEndian(U16("y", 2), "false")>>),
                     "true"),
          <<VObj([x |-> VNum(4660), y |-> VNum(4660)]), VObj([x |-> VNum(4660)]),
            VObj([y |-> VNum(4660)]), EmptyObj>>),
     Case(ObjectField("o", 0, 4, <<U16("x", 0), WithEndian(U16("y", 2), "true")>>),
          <<VObj([x |-> VNum(4660), y |-> VNum(4660)]), VObj([x |-> VNum(4660)]),
            VObj([y |-> VNum(4660)]), EmptyObj>>),
     \* 10: objects inside a little-endian object
     Case(WithEndian(ObjectField("o", 0, 4,
            <<ObjectField("p", 0, 2, <<U16("x", 0)>>),
              WithEndian(ObjectField("q", 2, 2, <<U16("y", 0)>>), "false")>>), "true"),
          <<VObj([p |-> VObj([x |-> VNum(4660)]), q |-> VObj([y |-> VNum(4660)])]),
            VObj([p |-> VObj([x |-> VNum(4660)])]),
            VObj([q |-> EmptyObj])>>),
     \* 11: an object with a field of a type no codec has
     Case(ObjectField("o", 0, 4, <<U8("a", 0), Field("foo", "q", 1, 1),
                                   StringField("t", 2, 2, TRUE)>>),
          <<VObj([a |-> VNum(1)]), VObj([a |-> VNum(1), q |-> VNum(2)]),
            VObj([t |-> VStr(Hi)])>>),
     \* 12: an array of 16-bit items inside a little-endian object
     Case(WithEndian(ObjectField("o", 0, 4,
            <<ArrayField("arr", 0, 4, Item(U16("", 0)))>>), "true"),
          <<VObj([arr |-> VArr(<<VNum(4660), VNum(1)>>)]), EmptyObj>>),
     \* 13..15: a signed 32-bit number in both orders and a signed 16-bit one
     Case(WithEndian(NumberField("n", 0, 4, "int"), "true"), <<VNum(305419896)>>),
     Case(NumberField("n", 0, 4, "int"), <<VNum(305419896)>>),
     Case(WithEndian(I16("n", 1), "true"), <<VNum(-2), VNum(4660)>>),
     \* 16: a two-byte raw field at 1, given one to four bytes
     Case(RawField("r", 1, 2),
          <<VBytes(<<7>>), VBytes(<<7, 8>>), VBytes(<<7, 8, 9>>), VBytes(<<7, 8, 9, 10>>)>>)
  >>

\* the call is made: the codec is the one exported for the field's type
DirectCall(c, op, field, value, buffer) ==
  /\ call[c].pc = "idle"
  /\ call' = [call EXCEPT ![c] =
       [IdleCall EXCEPT !.pc = "called", !.op = op, !.field = field, !.value = value,
                        !.before = buffer, !.buf = buffer, !.reg0 = registry]]
  /\ UNCHANGED <<registry, base, log>>

DirectWrite(c) ==
  \E i \in 1..Len(DirectCases), buffer \in DirectBuffers :
    \E j \in 1..Len(DirectCases[i].values) :
      DirectCall(c, "write", DirectCases[i].field, DirectCases[i].values[j], buffer)

DirectRead(c) ==
  \E i \in 1..Len(DirectCases), buffer \in DirectBuffers :
    DirectCall(c, "read", DirectCases[i].field, Undef, buffer)

\* the body of the codec's read or write
DirectRunStep(k, map) ==
  IF k.op = "write"
  THEN LET w == CodecWrite(k.field.type, map, k.buf, k.field, k.value)
       IN IF w.err # "none" THEN [Fail(k, w.err) EXCEPT !.buf = w.buf]
          ELSE [k EXCEPT !.pc = "done", !.buf = w.buf]
  ELSE LET r == CodecRead(k.field.type, map, k.buf, k.field)
       IN IF r.err # "none" THEN Fail(k, r.err)
          ELSE [k EXCEPT !.pc = "done", !.result = r.v]

DirectRun(c) ==
  /\ call[c].pc = "called"
  /\ call' = [call EXCEPT ![c] = DirectRunStep(call[c], registry)]
  /\ UNCHANGED <<registry, base, log>>

NextCodec ==
  \/ \E codec \in {"string", "upperString"} : InstallBetweenCalls(codec)
  \/ DirectWrite(1)
  \/ DirectRead(1)
  \/ DirectRun(1)
  \/ Finish(1)

SpecCodec == Init /\ [][NextCodec]_vars

(***************************************************************************)
(* Properties                                                              *)
(***************************************************************************)
TypeNames == {"raw", "string", "number", "array", "bitmask", "bitset", "object", "foo"}

\* every codec installed into the registry since `new CodecRegistry()`
InstalledSoFar == (IF base = "default" THEN InstallAllOrder ELSE <<>>) \o log

RECURSIVE LastInstalled(_, _)
\* the codec installed last under a type name, "NotFound" when there is none
LastInstalled(installed, type) ==
  IF installed = <<>> THEN "NotFound"
  ELSE IF CodecType(installed[Len(installed)]) = type THEN installed[Len(installed)]
  ELSE LastInstalled(SubSeq(installed, 1, Len(installed) - 1), type)

\* C8: after any sequence of install calls, get(type) returns the codec
\* installed last under that name (the thrown not-found error when none was),
\* so an install replaces the binding of its own name and leaves the others.
C8_LastInstallWins ==
  \A type \in TypeNames : RegistryGet(registry, type) = LastInstalled(InstalledSoFar, type)

\* a name was installed twice, with two different codecs
C8_Witness ==
  \E i, j \in 1..Len(InstalledSoFar) :
    /\ i < j
    /\ CodecType(InstalledSoFar[i]) = CodecType(InstalledSoFar[j])
    /\ InstalledSoFar[i] # InstalledSoFar[j]
    /\ RegistryGet(registry, CodecType(InstalledSoFar[j])) = InstalledSoFar[j]

\* a diagnostic of level Fatal is among the results
HasFatal(results) == \E i \in 1..Len(results) : results[i].level = FATAL

HasCode(results, code) == \E i \in 1..Len(results) : results[i].code = code

\* the call has left processValidationResults (or never entered validation)
PastValidation(k) == k.pc \in {"alloc", "fields", "looping", "done", "failed"}

Ended(k) == k.pc \in {"done", "failed"}

\* the merged list the entry point hands to processValidationResults
MergedResults(k, map) ==
  validateCodecSpec(CallSpec(k), map)
  \o (IF k.op = "decode" THEN validateBufferSize(CallSpec(k), CallBuffer(k))
      ELSE validateRuntimeData(CallSpec(k), CallValue(k), map))

\* C5: a call fails with a ValidationError exactly when validation ran, its
\* merged list holds at least one Fatal diagnostic and throwOnFatal is not
\* false; the error carries exactly the Fatal diagnostics of the list, in
\* order.  Error, Warning and Info diagnostics alone never raise it.
C5_ValidationErrorIffFatal ==
  \A c \in Callers :
    LET k == call[c]
    IN /\ k.error = "ValidationError" =>
            /\ k.validate /\ k.throwOnFatal /\ HasFatal(k.diags)
            /\ k.thrown = SelectSeq(k.diags, LAMBDA r : r.level = FATAL)
       /\ (PastValidation(k) /\ k.validate /\ k.throwOnFatal /\ HasFatal(k.diags)) =>
            k.error = "ValidationError"
       /\ k.error # "ValidationError" => k.thrown = <<>>

\* a ValidationError raised from a list that mixes Fatal with lower levels
C5_Witness ==
  \E c \in Callers :
    /\ call[c].error = "ValidationError"
    /\ Len(call[c].thrown) > 0
    /\ Len(call[c].thrown) < Len(call[c].diags)

\* C6 as stated: a call made with a sink invokes it exactly once, with the
\* full merged list.
C6_SinkOncePerCall ==
  \A c \in Callers :
    LET k == call[c]
    IN (k.hasSink /\ k.validate /\ k.pc \in {"check", "alloc", "fields", "looping", "done"}) =>
         k.sink = <<MergedResults(k, registry)>>

\* C6: with validation enabled and a sink supplied, the sink has been invoked
\* by the time the Fatal check is made (so before any ValidationError):
\* exactly once, with the full merged list of static and buffer/data results
\* of every level, when that list is not empty, and not at all when it is
\* empty.  Without a sink, or with validation disabled, nothing is invoked.
C6_SinkOnceWhenNonEmpty ==
  \A c \in Callers :
    LET k == call[c]
    IN /\ (k.validate /\ k.hasSink
           /\ (k.pc \in {"check", "alloc", "fields", "looping", "done"} \/ k.error = "ValidationError")) =>
            /\ k.diags = MergedResults(k, registry)
            /\ k.diags # <<>> => k.sink = <<k.diags>>
            /\ k.diags = <<>> => k.sink = <<>>
       /\ (~k.validate \/ ~k.hasSink) => k.sink = <<>>

\* the sink was handed a list of mixed levels and the call then failed on
\* its Fatal entries
C6_Witness ==
  \E c \in Callers :
    /\ call[c].hasSink /\ call[c].error = "ValidationError"
    /\ call[c].sink = <<call[c].diags>>
    /\ Len(call[c].thrown) < Len(call[c].diags)

\* C10 as stated: a decode of a buffer shorter than spec.byteLength fails
\* with BUFFER_TOO_SMALL.
C10_ShortBufferFails ==
  \A c \in Callers :
    LET k == call[c]
    IN (k.op = "decode" /\ Ended(k) /\ Len(CallBuffer(k)) < CallSpec(k).byteLength) =>
         /\ k.pc = "failed"
         /\ HasCode(k.thrown, "BUFFER_TOO_SMALL")

\* C10: with validation enabled and throwOnFatal not false, a decode of a
\* buffer shorter than spec.byteLength fails with a ValidationError carrying
\* BUFFER_TOO_SMALL before any field is read.
C10_ShortBufferFailsWhenValidated ==
  \A c \in Callers :
    LET k == call[c]
    IN (k.op = "decode" /\ k.validate /\ k.throwOnFatal /\ PastValidation(k)
        /\ Len(CallBuffer(k)) < CallSpec(k).byteLength) =>
         /\ k.pc = "failed" /\ k.error = "ValidationError"
         /\ HasCode(k.thrown, "BUFFER_TOO_SMALL")
         /\ k.accessed = 0

\* a short buffer whose only Fatal diagnostic is BUFFER_TOO_SMALL was refused
C10_Witness ==
  \E c \in Callers :
    /\ call[c].op = "decode" /\ call[c].error = "ValidationError"
    /\ Len(call[c].thrown) = 1
    /\ call[c].thrown[1].code = "BUFFER_TOO_SMALL"

RECURSIVE HasUnknownType(_, _)
\* a field of the list, at any depth, names a type the registry does not bind
HasUnknownType(map, fields) ==
  \E i \in 1..Len(fields) :
    \/ ~RegistryHas(map, fields[i].type)
    \/ fields[i].type = "object" /\ HasUnknownType(map, fields[i].fields)
    \/ fields[i].type = "array" /\ HasUnknownType(map, fields[i].item)

RECURSIVE HasOutOfBounds(_, _)
\* a field of the list, at any depth, ends beyond the byteLength of the spec
\* or object whose field list it is in
HasOutOfBounds(limit, fields) ==
  \E i \in 1..Len(fields) :
    \/ fields[i].byteOffset + fields[i].byteLength > limit
    \/ fields[i].type = "object" /\ HasOutOfBounds(fields[i].byteLength, fields[i].fields)
    \/ /\ fields[i].type = "array" /\ fields[i].item # <<>>
       /\ fields[i].item[1].type = "object"
       /\ HasOutOfBounds(fields[i].item[1].byteLength, fields[i].item[1].fields)

RECURSIVE BitmaskFields(_)
\* the bitmask fields of the list, at any depth
BitmaskFields(fields) ==
  Flatten([i \in 1..Len(fields) |->
    IF fields[i].type = "bitmask" THEN <<fields[i]>>
    ELSE IF fields[i].type = "object" THEN BitmaskFields(fields[i].fields)
    ELSE IF fields[i].type = "array" THEN BitmaskFields(fields[i].item)
    ELSE <<>>])

\* a bit position or an end of a bit range lies beyond the field's bits
HasBitBeyondField(fields) ==
  LET masks == BitmaskFields(fields)
  IN \E i \in 1..Len(masks) : \E j \in 1..Len(masks[i].map) :
       \E b \in 1..Len(masks[i].map[j].bits) :
         masks[i].map[j].bits[b] >= masks[i].byteLength * 8

\* a bit range [high, low] with high < low
HasBitRangeReversed(fields) ==
  LET masks == BitmaskFields(fields)
  IN \E i \in 1..Len(masks) : \E j \in 1..Len(masks[i].map) :
       /\ Len(masks[i].map[j].bits) = 2
       /\ masks[i].map[j].bits[1] < masks[i].map[j].bits[2]

\* the call was stopped before a buffer was allocated or wrapped and before
\* any field was read or written
AbortedBeforeAccess(k) ==
  k.pc = "failed" /\ ~k.allocated /\ k.accessed = 0 /\ k.buf = <<>> /\ k.result = <<>>

\* C2 as stated: with validation enabled and not suppressed, an unknown field
\* type, an out-of-bounds field or a malformed bit range (out of the field's
\* bits, or high < low) stops the call before the first read or write.
C2_SchemaErrorsAbort ==
  \A c \in Callers :
    LET k == call[c]
    IN (k.validate /\ k.throwOnFatal /\ PastValidation(k)
        /\ (\/ HasUnknownType(registry, CallSpec(k).fields)
            \/ HasOutOfBounds(CallSpec(k).byteLength, CallSpec(k).fields)
            \/ HasBitBeyondField(CallSpec(k).fields)
            \/ HasBitRangeReversed(CallSpec(k).fields))) =>
         AbortedBeforeAccess(k)

\* C2: with validation enabled and throwOnFatal not false, a field of
\* unregistered type, a field ending beyond its container, or a bit position
\* or range beyond byteLength * 8, at any depth, stops the call before a
\* buffer is allocated and before the first codec read or write.
C2_FatalSchemaErrorsAbort ==
  \A c \in Callers :
    LET k == call[c]
    IN (k.validate /\ k.throwOnFatal /\ PastValidation(k)
        /\ (\/ HasUnknownType(registry, CallSpec(k).fields)
            \/ HasOutOfBounds(CallSpec(k).byteLength, CallSpec(k).fields)
            \/ HasBitBeyondField(CallSpec(k).fields))) =>
         /\ AbortedBeforeAccess(k)
         /\ k.error \in {"ValidationError", "NotFound"}

\* a call stopped on a nested field that ends beyond its object
C2_Witness ==
  \E c \in Callers :
    /\ call[c].validate /\ call[c].throwOnFatal
    /\ AbortedBeforeAccess(call[c])
    /\ HasCode(call[c].thrown, "OBJECT_FIELD_OUT_OF_BOUNDS")

RECURSIVE WrongTyped(_, _, _)
\* a field of the list, at any depth, is given a value its codec's
\* validateData rejects by type: typeof for number and string, instanceof
\* Uint8Array for raw, Array.isArray for bitset and array, typeof 'object'
\* for bitmask and object
WrongTyped(map, fields, value) ==
  \E i \in 1..Len(fields) :
    LET f == fields[i]
        v == GetProp(value, f.name)
        codec == RegistryGet(map, f.type)
    IN /\ v.t # "undefined"
       /\ \/ codec = "number" /\ TypeOf(v) # "number"
          \/ codec \in {"string", "upperString"} /\ TypeOf(v) # "string"
          \/ codec = "raw" /\ v.t # "bytes"
          \/ codec = "bitset" /\ v.t # "array"
          \/ codec = "bitmask" /\ TypeOf(v) # "object"
          \/ codec = "array" /\ v.t # "array"
          \/ /\ codec = "array" /\ v.t = "array" /\ f.item # <<>>
             /\ \E j \in 1..Len(v.v) :
                  WrongTyped(map, <<[f.item[1] EXCEPT !.name = "arrayItem"]>>,
                             VObj([arrayItem |-> v.v[j]]))
          \/ codec = "object" /\ TypeOf(v) # "object"
          \/ codec = "object" /\ TypeOf(v) = "object" /\ WrongTyped(map, f.fields, v)

\* C3 as stated: an encode whose validation meets a wrong-typed value stops
\* before the buffer is allocated and returns nothing.
C3_DataErrorsAbort ==
  \A c \in Callers :
    LET k == call[c]
    IN (k.op = "encode" /\ k.validate /\ PastValidation(k)
        /\ WrongTyped(registry, CallSpec(k).fields, CallValue(k))) =>
         AbortedBeforeAccess(k)

\* C3: with validation enabled and throwOnFatal not false, an encode of a
\* value that holds, at any depth, a value of the wrong type for its field
\* stops before the output buffer is allocated and before any codec write,
\* and returns no buffer.
C3_FatalDataErrorsAbort ==
  \A c \in Callers :
    LET k == call[c]
    IN (k.op = "encode" /\ k.validate /\ k.throwOnFatal /\ PastValidation(k)
        /\ WrongTyped(registry, CallSpec(k).fields, CallValue(k))) =>
         /\ AbortedBeforeAccess(k)
         /\ k.error \in {"ValidationError", "NotFound"}
         /\ k.error = "ValidationError" => HasFatal(k.diags)

\* an encode stopped on a wrong-typed value inside a nested object
C3_Witness ==
  \E c \in Callers :
    /\ call[c].op = "encode" /\ AbortedBeforeAccess(call[c])
    /\ \E i \in 1..Len(call[c].thrown) :
         /\ call[c].thrown[i].code = "INVALID_NUMBER_DATA_TYPE"
         /\ call[c].thrown[i].path = "hdr.id"

RECURSIVE UnknownTypeOnReadPath(_, _)
\* a decode that gets as far as this field list looks up an unregistered
\* type: for a member of the list, of a nested object, or for the item of an
\* array that has at least one item
UnknownTypeOnReadPath(map, fields) ==
  \E i \in 1..Len(fields) :
    \/ ~RegistryHas(map, fields[i].type)
    \/ RegistryGet(map, fields[i].type) = "object"
       /\ UnknownTypeOnReadPath(map, fields[i].fields)
    \/ /\ RegistryGet(map, fields[i].type) = "array" /\ fields[i].item # <<>>
       /\ ArrayCount(fields[i].byteLength, fields[i].item[1].byteLength) # 0
       /\ UnknownTypeOnReadPath(map, fields[i].item)

RECURSIVE UnknownTypeOnWritePath(_, _, _)
\* the same for an encode of the value: the object codec skips a field whose
\* key is undefined before it looks the type up
UnknownTypeOnWritePath(map, fields, value) ==
  \E i \in 1..Len(fields) :
    /\ GetProp(value, fields[i].name).t # "undefined"
    /\ \/ ~RegistryHas(map, fields[i].type)
       \/ RegistryGet(map, fields[i].type) = "object"
          /\ UnknownTypeOnWritePath(map, fields[i].fields, GetProp(value, fields[i].name))
       \/ /\ RegistryGet(map, fields[i].type) = "array" /\ fields[i].item # <<>>
          /\ ArrayCount(fields[i].byteLength, fields[i].item[1].byteLength) # 0
          /\ ~RegistryHas(map, fields[i].item[1].type)

LeafTypes == {"raw", "number", "string", "bitset", "bitmask"}

RECURSIVE ReadsBeyond(_, _, _)
\* a decode of the field list placed at offset start reads a leaf field, at
\* any depth, whose last byte lies beyond a buffer of len bytes
ReadsBeyond(fields, start, len) ==
  \E i \in 1..Len(fields) :
    LET f == fields[i]
        off == start + f.byteOffset
    IN \/ f.type \in LeafTypes /\ off + f.byteLength > len
       \/ f.type = "object" /\ ReadsBeyond(f.fields, off, len)
       \/ /\ f.type = "array" /\ f.item # <<>>
          /\ \E j \in 0..(ArrayCount(f.byteLength, f.item[1].byteLength) - 1) :
               ReadsBeyond(<<[f.item[1] EXCEPT !.byteOffset = 0]>>,
                           off + j * f.item[1].byteLength, len)

RECURSIVE WritesBeyond(_, _, _, _)
\* the same for an encode of the value: absent keys are skipped, and a raw
\* field writes as many bytes as the value has
WritesBeyond(fields, value, start, len) ==
  \E i \in 1..Len(fields) :
    LET f == fields[i]
        off == start + f.byteOffset
        v == GetProp(value, f.name)
    IN /\ v.t # "undefined"
       /\ \/ f.type \in LeafTypes \ {"raw"} /\ off + f.byteLength > len
          \/ f.type = "raw" /\ v.t = "bytes" /\ off + Len(v.v) > len
          \/ f.type = "object" /\ WritesBeyond(f.fields, v, off, len)
          \/ /\ f.type = "array" /\ f.item # <<>>
             /\ f.item[1].type \in LeafTypes \ {"raw"}
             /\ \E j \in 0..(ArrayCount(f.byteLength, f.item[1].byteLength) - 1) :
                  off + (j + 1) * f.item[1].byteLength > len

\* every built-in codec is installed
HasBuiltins(map) == BuiltinCodecs \subseteq RegistryListTypes(map)

\* C4 as stated, for calls made with validation disabled (only the access
\* itself can fail them): a call on a spec with a field, at any depth, whose
\* byteOffset + byteLength exceeds its container's byteLength, or on a buffer
\* a field ends beyond, fails with a RangeError.
C4_FieldBeyondContainerFails ==
  \A c \in Callers :
    LET k == call[c]
    IN (Ended(k) /\ ~k.validate /\ HasBuiltins(registry)
        /\ (\/ HasOutOfBounds(CallSpec(k).byteLength, CallSpec(k).fields)
            \/ k.op = "decode" /\ ReadsBeyond(CallSpec(k).fields, 0, Len(CallBuffer(k))))) =>
         k.pc = "failed" /\ k.error = "RangeError"

\* C4: with the built-in codecs, a decode that reads a leaf field (raw,
\* number, string, bitset, bitmask; at any depth, array items included)
\* ending beyond the buffer never returns: it fails with a RangeError at the
\* access, or earlier with a ValidationError when validation is enabled and
\* throwOnFatal is not false.  An encode fails the same way for a number,
\* string, bitset or bitmask field present in the value that ends beyond
\* the spec's byteLength, and for a raw field when byteOffset plus the
\* length of the VALUE does.  A call whose accesses all lie inside the
\* buffer raises no RangeError, whatever containers its fields exceed.
C4_AccessBeyondBufferFails ==
  \A c \in Callers :
    LET k == call[c]
    IN (Ended(k) /\ HasBuiltins(registry)) =>
         LET beyond == IF k.op = "decode"
                       THEN ReadsBeyond(CallSpec(k).fields, 0, Len(CallBuffer(k)))
                       ELSE WritesBeyond(CallSpec(k).fields, CallValue(k), 0,
                                         CallSpec(k).byteLength)
         IN /\ beyond =>
                 /\ k.pc = "failed"
                 /\ k.error \in {"RangeError", "ValidationError"}
                 /\ ~(k.validate /\ k.throwOnFatal) => k.error = "RangeError"
            /\ ~beyond => k.error # "RangeError"

\* an unvalidated decode failed with a RangeError on a field of a nested
\* list or on an array item
C4_Witness ==
  \E c \in Callers :
    /\ call[c].op = "decode" /\ ~call[c].validate /\ HasBuiltins(registry)
    /\ call[c].error = "RangeError"
    /\ CallSpec(call[c]).fields[call[c].idx].type = "array"

\* no two fields of the list overlap
NoOverlap(fields) ==
  \A i, j \in 1..Len(fields) : i < j => ~FieldsOverlap(fields[i], fields[j])

\* a text the string field gives back as it was written: it fills the field
\* when trimNull is off, does not end in NUL when it is on, does not start
\* with U+FEFF and holds no lone surrogate
StringSafe(f, text) ==
  /\ Len(TextEncode(text)) <= f.byteLength
  /\ ~f.trimNull => Len(TextEncode(text)) = f.byteLength
  /\ f.trimNull => (text = <<>> \/ text[Len(text)] # 0)
  /\ text = <<>> \/ text[1] # BOM
  /\ \A i \in 1..Len(text) : text[i] < 55296 \/ text[i] > 57343

\* the bits an entry of a bitmask map covers
BitsOf(bitField) ==
  IF Len(bitField.bits) = 2
  THEN Min(bitField.bits[1], bitField.bits[2])..Max(bitField.bits[1], bitField.bits[2])
  ELSE {bitField.bits[1]}

\* the value names exactly the entries of the map, which cover disjoint bits,
\* and an enum has no more values than its bits can number
BitmaskSafe(f, v) ==
  /\ v.t = "object"
  /\ DOMAIN v.v = {f.map[j].key : j \in 1..Len(f.map)}
  /\ \A j \in 1..Len(f.map) :
       f.map[j].type = "enum" =>
         Len(f.map[j].values) <= Pow2(Cardinality(BitsOf(f.map[j])))
  /\ \A i, j \in 1..Len(f.map) : i < j => BitsOf(f.map[i]) \cap BitsOf(f.map[j]) = {}

RECURSIVE RoundTripSafe(_, _)
\* what the round trip needs beyond clean validation, at every depth
RoundTripSafe(fields, value) ==
  /\ NoOverlap(fields)
  /\ \A i \in 1..Len(fields) : fields[i].byteOffset >= 0
  /\ \A i \in 1..Len(fields) :
       LET f == fields[i]
           v == GetProp(value, f.name)
       IN CASE f.type = "string" -> v.t = "string" /\ StringSafe(f, v.v)
            [] f.type = "bitmask" -> BitmaskSafe(f, v)
            [] f.type = "number" /\ f.numberType = "float" ->
                 v.t = "number" /\ Float32Value(Float32Bytes(v.v)) = v
            [] f.type = "object" -> RoundTripSafe(f.fields, v)
            [] f.type = "array" ->
                 /\ v.t = "array" /\ f.item # <<>>
                 /\ \A j \in 1..Len(v.v) :
                      RoundTripSafe(<<[f.item[1] EXCEPT !.name = "arrayItem"]>>,
                                    VObj([arrayItem |-> v.v[j]]))
            [] OTHER -> TRUE

\* the encode was made with the built-in codecs, and validation has nothing
\* to report about the spec or about the value
CleanEncode(k) ==
  /\ k.op = "encode" /\ k.pc = "done"
  /\ registry = getDefaultRegistry
  /\ MergedResults(k, registry) = <<>>

\* decode(spec, buffer) with the built-in codecs
DecodeOf(spec, buffer) == objectCodec_read(getDefaultRegistry, buffer, RootObject(spec))

AsBegun(k) ==
  [IdleCall EXCEPT !.pc = IF k.validate THEN "validate" ELSE "alloc",
                   !.op = k.op, !.sid = k.sid, !.iid = k.iid,
                   !.validate = k.validate, !.throwOnFatal = k.throwOnFatal,
                   !.hasSink = k.hasSink, !.reg0 = k.reg0]

RECURSIVE RunAlone(_, _)
\* the call run from where it is to its end in one go, against the registry map
RunAlone(k, map) ==
  CASE k.pc = "validate" -> RunAlone(ValidateStep(k, map), map)
    [] k.pc = "notify" -> RunAlone(NotifyStep(k), map)
    [] k.pc = "check" -> RunAlone(CheckStep(k), map)
    [] k.pc = "alloc" -> RunAlone(AllocStep(k, map), map)
    [] k.pc = "fields" /\ k.idx <= Len(CallSpec(k).fields) -> RunAlone(FieldStepOf(k, map), map)
    [] k.pc = "fields" /\ k.idx > Len(CallSpec(k).fields) -> [k EXCEPT !.pc = "done"]
    [] OTHER -> k

\* C9: when calls run interleaved against one registry and codecs are
\* installed only while no call is running, every call ends with the outcome
\* (value or buffer, error, diagnostics, sink invocations) it has when run
\* alone against that registry, and the registry is as it was when the call
\* was made.
C9_ConcurrentCallsAsAlone ==
  \A c \in Callers :
    /\ call[c].pc # "idle" => registry = call[c].reg0
    /\ Ended(call[c]) => call[c] = RunAlone(AsBegun(call[c]), call[c].reg0)

\* a call ran from start to end while another call was in the middle of its
\* field loop
C9_Witness ==
  \E c, d \in Callers :
    /\ c # d
    /\ call[c].pc = "fields" /\ call[c].idx = 2
    /\ call[d].pc = "done" /\ call[d].op = "encode"
    /\ call[d] = RunAlone(AsBegun(call[d]), call[d].reg0)

(***************************************************************************)
(* C11: the buffer encode returns                                          *)
(***************************************************************************)
\* byte b (counted from 0) lies in the span of a root field the value has
InPresentSpan(fields, value, b) ==
  \E i \in 1..Len(fields) :
    /\ GetProp(value, fields[i].name).t # "undefined"
    /\ fields[i].byteOffset <= b
    /\ b < fields[i].byteOffset + fields[i].byteLength

\* C11: the buffer encode returns is exactly spec.byteLength bytes long, and
\* every byte of it outside the span of every field present in the value is 0
C11_BytesOutsideSpansZero ==
  \A c \in Callers :
    (call[c].op = "encode" /\ call[c].pc = "done") =>
      /\ Len(call[c].buf) = CallSpec(call[c]).byteLength
      /\ \A b \in 0..(Len(call[c].buf) - 1) :
           ~InPresentSpan(CallSpec(call[c]).fields, CallValue(call[c]), b)
             => call[c].buf[b + 1] = 0

(***************************************************************************)
(* C12: Object.write and the keys the value lacks                          *)
(***************************************************************************)
\* the fields of the list whose key the value has
PresentFields(fields, value) ==
  SelectSeq(fields, LAMBDA f : GetProp(value, f.name).t # "undefined")

\* byte b (counted from 0) lies in the span of field f of the object spec
InSpanOf(spec, f, b) ==
  /\ spec.byteOffset + f.byteOffset <= b
  /\ b < spec.byteOffset + f.byteOffset + f.byteLength

\* a direct objectCodec.write that has ended
ObjectWriteEnded(k) ==
  k.op = "write" /\ k.field.type = "object" /\ k.pc \in {"done", "failed"}

\* C12: objectCodec.write skips a field whose key the value lacks: the write
\* ends as it would had the spec not listed the field (so the missing key
\* raises no error), and every byte of the field's span that no present
\* field covers is as it was before the write
C12_AbsentKeySkipped ==
  \A c \in Callers :
    LET k == call[c]
        present == PresentFields(k.field.fields, k.value)
        w == objectCodec_write(registry, k.before, [k.field EXCEPT !.fields = present],
                               k.value)
    IN ObjectWriteEnded(k) =>
         /\ k.error = w.err
         /\ k.buf = w.buf
         /\ present = <<>> => (k.pc = "done" /\ k.buf = k.before)
         /\ \A i \in 1..Len(k.field.fields) :
              GetProp(k.value, k.field.fields[i].name).t = "undefined" =>
                \A b \in 0..(Len(k.buf) - 1) :
                  (/\ InSpanOf(k.field, k.field.fields[i], b)
                   /\ \A j \in 1..Len(present) : ~InSpanOf(k.field, present[j], b))
                    => k.buf[b + 1] = k.before[b + 1]

\* a write of { x: 0x1234 } over four 0xFF bytes has left the two bytes of
\* the absent y as they were
C12_Witness ==
  \E c \in Callers :
    /\ ObjectWriteEnded(call[c]) /\ call[c].pc = "done"
    /\ call[c].field = DirectCases[8].field
    /\ call[c].value = VObj([x |-> VNum(4660)])
    /\ call[c].before = <<255, 255, 255, 255>>
    /\ call[c].buf = <<52, 18, 255, 255>>

(***************************************************************************)
(* C13: fields that end beyond their container                             *)
(***************************************************************************)
\* how many diagnostics of the list have this code and this path
CountAt(results, code, path) ==
  Cardinality({i \in 1..Len(results) : results[i].code = code /\ results[i].path = path})

FatalAt(results, code, path) ==
  \A i \in 1..Len(results) :
    (results[i].code = code /\ results[i].path = path) => results[i].level = FATAL

FieldPath(prefix, i) == prefix \o "fields[" \o ToString(i - 1) \o "]"

RECURSIVE ObjectChildren(_, _)
\* the fields below the object field f, at any depth of objects, each with
\* its path and the byteLength of the object that holds it
ObjectChildren(f, path) ==
  Flatten([j \in 1..Len(f.fields) |->
    <<[field |-> f.fields[j], path |-> FieldPath(path \o ".", j), limit |-> f.byteLength]>>
    \o (IF f.fields[j].type = "object"
        THEN ObjectChildren(f.fields[j], FieldPath(path \o ".", j)) ELSE <<>>)])

\* the fields of the spec that lie below an object field of the root list
NestedFields(spec) ==
  Flatten([i \in 1..Len(spec.fields) |->
    IF spec.fields[i].type = "object"
    THEN ObjectChildren(spec.fields[i], FieldPath("", i)) ELSE <<>>])

Beyond(field, limit) == field.byteOffset + field.byteLength > limit

\* a call whose validation has run
Validated(k) == k.validate /\ k.pc \notin {"idle", "validate"}

\* C13 as stated: every field that ends beyond its container, the spec or
\* an object, gets exactly one diagnostic coded FIELD_OUT_OF_BOUNDS, a Fatal
\* one, and the call goes no further
C13_OutOfBoundsOneFatalAndStop ==
  \A c \in Callers :
    LET k == call[c]
        spec == CallSpec(k)
        results == validateCodecSpec(spec, registry)
        nested == NestedFields(spec)
    IN Validated(k) =>
         /\ \A i \in 1..Len(spec.fields) :
              Beyond(spec.fields[i], spec.byteLength) =>
                /\ CountAt(results, "FIELD_OUT_OF_BOUNDS", FieldPath("", i)) = 1
                /\ FatalAt(results, "FIELD_OUT_OF_BOUNDS", FieldPath("", i))
                /\ Ended(k) => AbortedBeforeAccess(k)
         /\ \A n \in 1..Len(nested) :
              (Beyond(nested[n].field, nested[n].limit) /\ RegistryHas(registry, "object")) =>
                /\ CountAt(results, "FIELD_OUT_OF_BOUNDS", nested[n].path) = 1
                /\ FatalAt(results, "FIELD_OUT_OF_BOUNDS", nested[n].path)
                /\ Ended(k) => AbortedBeforeAccess(k)

\* C13: static validation reports a root field with exactly one diagnostic
\* coded FIELD_OUT_OF_BOUNDS at fields[i], a Fatal one, when the field ends
\* beyond spec.byteLength, and with none otherwise; a field of an object,
\* at any depth, gets instead exactly one Fatal OBJECT_FIELD_OUT_OF_BOUNDS
\* at its own path when it ends beyond the object's byteLength, and none
\* otherwise.  With throwOnFatal not false the call then fails before any
\* buffer is allocated or accessed.
C13_OutOfBoundsReported ==
  \A c \in Callers :
    LET k == call[c]
        spec == CallSpec(k)
        results == validateCodecSpec(spec, registry)
        nested == NestedFields(spec)
    IN Validated(k) =>
         /\ \A i \in 1..Len(spec.fields) :
              /\ CountAt(results, "FIELD_OUT_OF_BOUNDS", FieldPath("", i))
                   = IF Beyond(spec.fields[i], spec.byteLength) THEN 1 ELSE 0
              /\ FatalAt(results, "FIELD_OUT_OF_BOUNDS", FieldPath("", i))
              /\ (Beyond(spec.fields[i], spec.byteLength) /\ k.throwOnFatal /\ Ended(k)) =>
                   (AbortedBeforeAccess(k) /\ k.error \in {"ValidationError", "NotFound"})
         /\ RegistryHas(registry, "object") =>
              \A n \in 1..Len(nested) :
                /\ CountAt(results, "OBJECT_FIELD_OUT_OF_BOUNDS", nested[n].path)
                     = IF Beyond(nested[n].field, nested[n].limit) THEN 1 ELSE 0
                /\ CountAt(results, "FIELD_OUT_OF_BOUNDS", nested[n].path) = 0
                /\ FatalAt(results, "OBJECT_FIELD_OUT_OF_BOUNDS", nested[n].path)
                /\ (Beyond(nested[n].field, nested[n].limit) /\ k.throwOnFatal /\ Ended(k)) =>
                     (AbortedBeforeAccess(k) /\ k.error \in {"ValidationError", "NotFound"})

\* a call stopped with the one FIELD_OUT_OF_BOUNDS diagnostic of a string
\* field at offset 2, length 4, in a spec of 4 bytes
C13_Witness ==
  \E c \in Callers :
    /\ Validated(call[c]) /\ call[c].throwOnFatal
    /\ call[c].sid = 8
    /\ AbortedBeforeAccess(call[c])
    /\ call[c].thrown = <<Diag(FATAL, "FIELD_OUT_OF_BOUNDS", "fields[0]")>>

(***************************************************************************)
(* C14: fields of a type the registry does not know                        *)
(***************************************************************************)
Place(field, path, kind) == [field |-> field, path |-> path, kind |-> kind]

RECURSIVE PlacesBelow(_, _, _)
\* the fields and array items the validate hooks visit below the field f:
\* the hook of f runs only when the type of f is registered, an array's
\* only when it has an item of positive byteLength
PlacesBelow(map, f, path) ==
  IF f.type = "object" /\ RegistryHas(map, "object")
  THEN Flatten([j \in 1..Len(f.fields) |->
         <<Place(f.fields[j], FieldPath(path \o ".", j), "field")>>
         \o PlacesBelow(map, f.fields[j], FieldPath(path \o ".", j))])
  ELSE IF /\ f.type = "array" /\ RegistryHas(map, "array")
          /\ f.item # <<>> /\ f.item[1].byteLength > 0
  THEN <<Place(f.item[1], path \o ".item", "item")>>
       \o PlacesBelow(map, f.item[1], path \o ".item")
  ELSE <<>>

\* every field and array item static validation visits, with its path
Places(map, spec) ==
  Flatten([i \in 1..Len(spec.fields) |->
    <<Place(spec.fields[i], FieldPath("", i), "field")>>
    \o PlacesBelow(map, spec.fields[i], FieldPath("", i))])

\* C14 as stated: every field or array item of unregistered type, at any
\* depth, gets a Fatal diagnostic coded UNKNOWN_FIELD_TYPE whose path is the
\* path of the field
C14_UnknownTypeAtFieldPath ==
  \A c \in Callers :
    LET k == call[c]
        results == validateCodecSpec(CallSpec(k), registry)
        places == Places(registry, CallSpec(k))
    IN Validated(k) =>
         \A n \in 1..Len(places) :
           ~RegistryHas(registry, places[n].field.type) =>
             \E i \in 1..Len(results) :
               /\ results[i].level = FATAL
               /\ results[i].code = "UNKNOWN_FIELD_TYPE"
               /\ results[i].path = places[n].path

\* C14: a field of the root list or of an object, at any depth the validate
\* hooks reach, gets exactly one diagnostic coded UNKNOWN_FIELD_TYPE, a Fatal
\* one, at the field's path followed by ".type" when its type is not
\* registered, and none when it is; the item of an array gets instead exactly
\* one Fatal UNKNOWN_ARRAY_ITEM_TYPE at the array's path followed by
\* ".item.type"
C14_UnknownTypeReported ==
  \A c \in Callers :
    LET k == call[c]
        results == validateCodecSpec(CallSpec(k), registry)
        places == Places(registry, CallSpec(k))
    IN Validated(k) =>
         \A n \in 1..Len(places) :
           LET unknown == ~RegistryHas(registry, places[n].field.type)
               at == places[n].path \o ".type"
               code == IF places[n].kind = "item" THEN "UNKNOWN_ARRAY_ITEM_TYPE"
                       ELSE "UNKNOWN_FIELD_TYPE"
               other == IF places[n].kind = "item" THEN "UNKNOWN_FIELD_TYPE"
                        ELSE "UNKNOWN_ARRAY_ITEM_TYPE"
           IN /\ CountAt(results, code, at) = IF unknown THEN 1 ELSE 0
              /\ FatalAt(results, code, at)
              /\ CountAt(results, other, at) = 0
              /\ CountAt(results, "UNKNOWN_FIELD_TYPE", places[n].path) = 0

\* validation has reported the unregistered type of a field of an object and
\* of an array item in one list
C14_Witness ==
  \E c \in Callers :
    /\ Validated(call[c]) /\ call[c].sid = 16 /\ call[c].pc = "notify"
    /\ CountAt(call[c].diags, "UNKNOWN_FIELD_TYPE", "fields[0].fields[0].type") = 1
    /\ CountAt(call[c].diags, "UNKNOWN_ARRAY_ITEM_TYPE", "fields[1].item.type") = 1

(***************************************************************************)
(* C15: runtime data validation collects every Fatal                       *)
(***************************************************************************)
Expect(path, code) == [path |-> path, code |-> code]

RECURSIVE WrongTypedAt(_, _, _, _)
RECURSIVE WrongTypedIn(_, _, _, _)
\* the path and the code validateData owes for the value v given to the
\* field f, and for the values below it: a value is of the wrong type when
\* the type test of the field's codec rejects it (typeof for number, string,
\* bitmask and object, instanceof Uint8Array for raw, Array.isArray for bitset
\* and array)
WrongTypedAt(map, f, v, path) ==
  LET codec == RegistryGet(map, f.type)
  IN CASE codec = "number" ->
            IF TypeOf(v) # "number" THEN <<Expect(path, "INVALID_NUMBER_DATA_TYPE")>> ELSE <<>>
       [] codec \in {"string", "upperString"} ->
            IF TypeOf(v) # "string" THEN <<Expect(path, "INVALID_STRING_DATA_TYPE")>> ELSE <<>>
       [] codec = "raw" ->
            IF v.t # "bytes" THEN <<Expect(path, "INVALID_RAW_DATA_TYPE")>> ELSE <<>>
       [] codec = "bitset" ->
            IF v.t # "array" THEN <<Expect(path, "INVALID_BITSET_DATA_TYPE")>> ELSE <<>>
       [] codec = "bitmask" ->
            IF TypeOf(v) # "object" THEN <<Expect(path, "INVALID_BITMASK_DATA_TYPE")>> ELSE <<>>
       [] codec = "array" ->
            IF v.t # "array" THEN <<Expect(path, "INVALID_ARRAY_DATA_TYPE")>>
            ELSE IF f.item = <<>> THEN <<>>
            ELSE Flatten([j \in 1..Len(v.v) |->
                   WrongTypedAt(map, f.item[1], v.v[j],
                                path \o "[" \o ToString(j - 1) \o "]")])
       [] codec = "object" ->
            IF TypeOf(v) # "object" THEN <<Expect(path, "INVALID_OBJECT_DATA_TYPE")>>
            ELSE WrongTypedIn(map, f.fields, v, path)
       [] OTHER -> <<>>

WrongTypedIn(map, fields, value, path) ==
  Flatten([i \in 1..Len(fields) |->
    IF GetProp(value, fields[i].name).t = "undefined" THEN <<>>
    ELSE WrongTypedAt(map, fields[i], GetProp(value, fields[i].name),
                      IF path # "" THEN path \o "." \o fields[i].name ELSE fields[i].name)])

\* the list holds a Fatal diagnostic for each expected path and code
HoldsFatalFor(results, expected) ==
  \A n \in 1..Len(expected) :
    \E i \in 1..Len(results) :
      /\ results[i].level = FATAL
      /\ results[i].path = expected[n].path
      /\ results[i].code = expected[n].code

\* C15: the list runtime data validation returns for an encode holds a Fatal
\* diagnostic, at the field's path, for every field whose value is of the
\* wrong type, however many there are and at any depth; so does the
\* ValidationError raised from it, which is raised whenever there is such a
\* field and throwOnFatal is not false
C15_EveryWrongTypeReported ==
  \A c \in Callers :
    LET k == call[c]
        expected == WrongTypedIn(registry, CallSpec(k).fields, CallValue(k), "")
    IN (k.op = "encode" /\ Validated(k) /\ RegistryHas(registry, "object")) =>
         /\ HoldsFatalFor(k.diags, expected)
         /\ k.error = "ValidationError" => HoldsFatalFor(k.thrown, expected)
         /\ (expected # <<>> /\ k.throwOnFatal /\ Ended(k)) => k.error = "ValidationError"

\* an encode has failed with a ValidationError that names seven wrong-typed
\* values, the last of them inside an array
C15_Witness ==
  \E c \in Callers :
    /\ call[c].op = "encode" /\ call[c].sid = 23 /\ call[c].iid = 2
    /\ call[c].error = "ValidationError"
    /\ Len(WrongTypedIn(registry, CallSpec(call[c]).fields, CallValue(call[c]), "")) = 7
    /\ Len(call[c].thrown) = 7
    /\ call[c].thrown[1] = Diag(FATAL, "INVALID_NUMBER_DATA_TYPE", "count")
    /\ call[c].thrown[6] = Diag(FATAL, "INVALID_NUMBER_DATA_TYPE", "hdr.id")
    /\ call[c].thrown[7] = Diag(FATAL, "INVALID_NUMBER_DATA_TYPE", "arr[0]")

ValidationReturned(k) ==
  /\ Validated(k) /\ CallSpec(k).hasFields
  /\ ~(k.op = "encode" /\ ~RegistryHas(registry, "object"))

LittleOf(f, inherited) ==
  IF f.littleEndian = "true" THEN TRUE
  ELSE IF f.littleEndian = "false" THEN FALSE
  ELSE inherited

Leaf(f, off, little, v) == [field |-> f, off |-> off, little |-> little, v |-> v]

RECURSIVE NumberLeaves(_, _, _, _)
\* the multi-byte integer fields of the list and of the objects below it
\* for which the value holds a number, each with its absolute offset and
\* the byte order it owns or inherits
NumberLeaves(fields, start, inherited, value) ==
  Flatten([i \in 1..Len(fields) |->
    LET f == fields[i]
        v == GetProp(value, f.name)
    IN IF f.type = "number" /\ f.numberType # "float" /\ v.t = "number"
       THEN <<Leaf(f, start + f.byteOffset, LittleOf(f, inherited), v.v)>>
       ELSE IF f.type = "object" /\ v.t = "object"
       THEN NumberLeaves(f.fields, start + f.byteOffset, LittleOf(f, inherited), v)
       ELSE <<>>])

\* a direct objectCodec.read or write that has returned, under a registry
\* with the built-in codecs
ObjectCallDone(k, op) ==
  k.op = op /\ k.pc = "done" /\ k.field.type = "object" /\ HasBuiltins(registry)

\* C17: objectCodec.write stores every integer field of the object, and of
\* the objects nested in it, in the field's own byte order when it sets
\* littleEndian, else in the order inherited from the enclosing object (the
\* outermost defaulting to big-endian); objectCodec.read returns the number
\* those bytes hold in that same order
C17_FieldByteOrder ==
  \A c \in Callers :
    LET k == call[c] IN
    /\ ObjectCallDone(k, "write") =>
         LET leaves == NumberLeaves(k.field.fields, k.field.byteOffset,
                                    LittleOf(k.field, FALSE), k.value)
         IN \A n \in 1..Len(leaves) :
              Slice(k.buf, leaves[n].off, leaves[n].field.byteLength)
                = NumberBytes(leaves[n].v, leaves[n].field.byteLength, leaves[n].little)
    /\ ObjectCallDone(k, "read") =>
         LET leaves == NumberLeaves(k.field.fields, k.field.byteOffset,
                                    LittleOf(k.field, FALSE), k.result)
         IN \A n \in 1..Len(leaves) :
              leaves[n].v = NumberOfBytes(Slice(k.before, leaves[n].off,
                                                leaves[n].field.byteLength),
                                          leaves[n].field.numberType, leaves[n].little)

\* inside a little-endian object, x in an object that sets no byte order
\* was written little-endian and y in a big-endian object big-endian
C17_Witness ==
  \E c \in Callers :
    /\ ObjectCallDone(call[c], "write")
    /\ call[c].field = DirectCases[10].field
    /\ Len(NumberLeaves(call[c].field.fields, 0, TRUE, call[c].value)) = 1
    /\ call[c].value = VObj([p |-> VObj([x |-> VNum(4660)])])
    /\ call[c].before = <<255, 255, 255, 255>>
    /\ call[c].buf = <<52, 18, 255, 255>>

(***************************************************************************)
(* C18: the byte order of a number                                         *)
(***************************************************************************)
\* a direct write of the codec of this type has returned
WriteDone(k, type) == k.op = "write" /\ k.pc = "done" /\ k.field.type = type

\* the bytes of the buffer outside the field are as they were
OutsideUntouched(k) ==
  /\ Len(k.buf) = Len(k.before)
  /\ \A b \in 0..(Len(k.buf) - 1) :
       (b < k.field.byteOffset \/ b >= k.field.byteOffset + k.field.byteLength)
         => k.buf[b + 1] = k.before[b + 1]

\* C18: numberCodec.write of an integer stores byte j of the number (byte 0
\* the least significant) at position j of the field when littleEndian is
\* true and at position byteLength - 1 - j otherwise, so 0x1234 becomes
\* 34 12 or 12 34; numberCodec.read of the field then returns the number
C18_NumberByteOrder ==
  \A c \in Callers :
    LET k == call[c]
        f == k.field
        n == k.value.v
        u == IF n < 0 THEN n + 256 ^ f.byteLength ELSE n
        little == f.littleEndian = "true"
    IN (WriteDone(k, "number") /\ f.numberType # "float") =>
         /\ \A j \in 0..(f.byteLength - 1) :
              k.buf[f.byteOffset + 1 + (IF little THEN j ELSE f.byteLength - 1 - j)]
                = (u \div 256 ^ j) % 256
         /\ (n = 4660 /\ f.byteLength = 2) =>
              Slice(k.buf, f.byteOffset, 2) = IF little THEN <<52, 18>> ELSE <<18, 52>>
         /\ numberCodec_read(k.buf, f) = Returned(k.value)
         /\ OutsideUntouched(k)

\* 0x1234 has been written little-endian over two 0xFF bytes
C18_Witness ==
  \E c \in Callers :
    /\ WriteDone(call[c], "number")
    /\ call[c].field = DirectCases[1].field
    /\ call[c].value = VNum(4660)
    /\ call[c].before = <<255, 255, 0, 0>>
    /\ call[c].buf = <<52, 18, 0, 0>>

(***************************************************************************)
(* C19: the bits of a bitset                                               *)
(***************************************************************************)
\* bit i of the field (bit i mod 8 of its byte floor(i / 8)) is set
BitsetBit(buf, f, i) == (buf[f.byteOffset + (i \div 8) + 1] \div 2 ^ (i % 8)) % 2 = 1

\* C19: after bitsetCodec.write, for every i below byteLength * 8, bit
\* i mod 8 of byte floor(i / 8) of the field is set exactly when value[i] is
\* truthy, whatever the field held before, and the bytes outside the field
\* are untouched (so F,T,F,F,T,T,F,T becomes 0xB2); bitsetCodec.read returns,
\* for every i, whether that same bit is set
C19_BitsetLsbFirst ==
  \A c \in Callers :
    LET k == call[c]
        f == k.field
    IN /\ WriteDone(k, "bitset") =>
            /\ \A i \in 0..(f.byteLength * 8 - 1) :
                 BitsetBit(k.buf, f, i) <=> Truthy(GetIndex(k.value, i))
            /\ k.value = Bools(<<0, 1, 0, 0, 1, 1, 0, 1>>) =>
                 Slice(k.buf, f.byteOffset, 1) = <<178>>
            /\ OutsideUntouched(k)
            /\ Len(k.value.v) = f.byteLength * 8 =>
                 bitsetCodec_read(registry, k.buf, f) = Returned(k.value)
       /\ (k.op = "read" /\ k.pc = "done" /\ f.type = "bitset") =>
            /\ Len(k.result.v) = f.byteLength * 8
            /\ \A i \in 0..(f.byteLength * 8 - 1) :
                 k.result.v[i + 1] = VBool(BitsetBit(k.before, f, i))

\* F,T,F,F,T,T,F,T has been written as 0xB2 over a byte that held 0xFF
C19_Witness ==
  \E c \in Callers :
    /\ WriteDone(call[c], "bitset")
    /\ call[c].value = Bools(<<0, 1, 0, 0, 1, 1, 0, 1>>)
    /\ call[c].before = <<255, 255, 255, 255>>
    /\ call[c].buf = <<255, 178, 255, 255>>

(***************************************************************************)
(* C20: the bytes of a string field                                        *)
(***************************************************************************)
\* the first m characters of the text
Prefix(text, m) == SubSeq(text, 1, m)

\* the number of whole characters of the text whose encoding fits in room bytes
WholeChars(text, room) ==
  CHOOSE m \in 0..Len(text) :
    /\ Len(TextEncode(Prefix(text, m))) <= room
    /\ m < Len(text) => Len(TextEncode(Prefix(text, m + 1))) > room

\* the field's bytes are the first min(L, n) bytes of the encoded text, then zeros
StoredAsPrefixAndZeros(k) ==
  LET enc == TextEncode(k.value.v)
      kept == Min(k.field.byteLength, Len(enc))
  IN Slice(k.buf, k.field.byteOffset, k.field.byteLength)
       = SubSeq(enc, 1, kept) \o Zeros(k.field.byteLength - kept)

\* what stringCodec.read returns for the field after the write
ReRead(k) == stringCodec_read(getDefaultRegistry, k.buf, k.field).v.v

WellFormed(text) ==
  /\ text # <<>> => text[1] # BOM
  /\ \A i \in 1..Len(text) : text[i] < 55296 \/ text[i] > 57343

ByteRange(f) == f.byteOffset .. (f.byteOffset + f.byteLength - 1)

Intersect(f1, f2) == ByteRange(f1) \cap ByteRange(f2) # {}

RECURSIVE ListsBelow(_)
\* the field lists of the objects at and below the field f, array items
\* included
ListsBelow(f) ==
  IF f.type = "object"
  THEN <<f.fields>> \o Flatten([j \in 1..Len(f.fields) |-> ListsBelow(f.fields[j])])
  ELSE IF f.type = "array" /\ f.item # <<>> THEN ListsBelow(f.item[1])
  ELSE <<>>

\* every field list of the spec: the root list first, then the nested ones
FieldLists(spec) ==
  <<spec.fields>> \o Flatten([i \in 1..Len(spec.fields) |-> ListsBelow(spec.fields[i])])

\* the pairs of fields of one list whose byte ranges intersect
IntersectingPairs(lists) ==
  {t \in UNION {{<<n, i, j>> : i, j \in 1..Len(lists[n])} : n \in 1..Len(lists)} :
     t[2] < t[3] /\ Intersect(lists[t[1]][t[2]], lists[t[1]][t[3]])}

CountCode(results, code) ==
  Cardinality({i \in 1..Len(results) : results[i].code = code})

PairPath(i, j) ==
  "fields[" \o ToString(i - 1) \o "], fields[" \o ToString(j - 1) \o "]"

\* C21 as stated: static validation yields one Warning FIELD_OVERLAP for
\* every pair of fields of one list, the root list or the list of a nested
\* object, whose byte ranges intersect, and none for any other pair
C21_OverlapReportedInEveryList ==
  \A c \in Callers :
    LET k == call[c]
        results == validateCodecSpec(CallSpec(k), registry)
    IN (Validated(k) /\ HasBuiltins(registry)) =>
         /\ CountCode(results, "FIELD_OVERLAP")
              = Cardinality(IntersectingPairs(FieldLists(CallSpec(k))))
         /\ \A i \in 1..Len(results) :
              results[i].code = "FIELD_OVERLAP" => results[i].level = WARNING

\* C21: static validation checks the root field list only.  For every pair
\* of root fields i < j of positive byteLength it yields exactly one
\* diagnostic coded FIELD_OVERLAP, a Warning at "fields[i], fields[j]", when
\* their byte ranges intersect, and none when they do not (adjacent fields
\* included); it yields no FIELD_OVERLAP for the fields of a nested object,
\* whether they intersect or not.
C21_RootOverlapReported ==
  \A c \in Callers :
    LET k == call[c]
        fields == CallSpec(k).fields
        results == validateCodecSpec(CallSpec(k), registry)
    IN Validated(k) =>
         /\ \A i, j \in 1..Len(fields) :
              (i < j /\ fields[i].byteLength > 0 /\ fields[j].byteLength > 0) =>
                CountAt(results, "FIELD_OVERLAP", PairPath(i, j))
                  = IF Intersect(fields[i], fields[j]) THEN 1 ELSE 0
         /\ \A n \in 1..Len(results) :
              results[n].code = "FIELD_OVERLAP" =>
                /\ results[n].level = WARNING
                /\ \E i, j \in 1..Len(fields) : i < j /\ results[n].path = PairPath(i, j)

\* validation has reported the overlap of a 16-bit field at 0 and a byte at 1
C21_Witness ==
  \E c \in Callers :
    /\ Validated(call[c]) /\ call[c].sid = 17 /\ call[c].pc = "notify"
    /\ call[c].diags = <<Diag(WARNING, "FIELD_OVERLAP", "fields[0], fields[1]")>>

(***************************************************************************)
(* C22: arrays of arrays                                                   *)
(***************************************************************************)
RECURSIVE HasNestedArray(_)
\* some array of the field list, at any depth, has an item of type 'array'
HasNestedArray(fields) ==
  \E i \in 1..Len(fields) :
    LET f == fields[i]
    IN \/ f.type = "object" /\ HasNestedArray(f.fields)
       \/ /\ f.type = "array" /\ f.item # <<>>
          /\ \/ f.item[1].type = "array"
             \/ HasNestedArray(<<f.item[1]>>)

\* C22 as stated: a spec in which an array's item is itself an array is not
\* accepted: no decode and no encode of such a spec ends with a result
C22_NestedArrayNeverSucceeds ==
  \A c \in Callers :
    (call[c].pc \notin {"idle"} /\ HasNestedArray(CallSpec(call[c]).fields)) =>
      call[c].pc # "done"

(***************************************************************************)
(* C23: rawCodec.write                                                     *)
(***************************************************************************)
\* the buffer with the bytes copied in from offset on
WithBytesAt(buffer, offset, bytes) ==
  [i \in 1..Len(buffer) |->
     IF i - 1 >= offset /\ i - 1 < offset + Len(bytes) THEN bytes[i - offset] ELSE buffer[i]]

\* C23: rawCodec.write copies the given bytes into the buffer starting at
\* the field's offset, leaving every other byte as it was, and fails with a
\* RangeError, writing nothing, when the bytes are more than the buffer
\* holds from that offset on (the destination region)
C23_RawWriteCopiesOrRangeError ==
  \A c \in Callers :
    LET k == call[c]
    IN (Ended(k) /\ k.op = "write" /\ k.field.type = "raw" /\ k.value.t = "bytes") =>
         IF k.field.byteOffset + Len(k.value.v) > Len(k.before)
         THEN k.pc = "failed" /\ k.error = "RangeError" /\ k.buf = k.before
         ELSE k.pc = "done" /\ k.buf = WithBytesAt(k.before, k.field.byteOffset, k.value.v)

\* four bytes given to a raw field at offset 1 of a four-byte buffer were refused
C23_Witness ==
  \E c \in Callers :
    /\ call[c].op = "write" /\ call[c].field.type = "raw"
    /\ call[c].value = VBytes(<<7, 8, 9, 10>>) /\ call[c].field.byteOffset = 1
    /\ call[c].pc = "failed" /\ call[c].error = "RangeError"
    /\ call[c].buf = call[c].before

(***************************************************************************)
(* C24: what a spec without Fatal diagnostics lets a call touch            *)
(***************************************************************************)
RECURSIVE TouchesOutside(_, _, _, _, _, _)
\* a decode (reading) or an encode of the value, run to its end on the
\* field list placed at offset start inside a container spanning the bytes
\* [from, to), touches a byte outside the container of the field it is
\* touched for: fields of an object are contained in the object, items of an
\* array in the array.  A raw field is written as long as its value is;
\* absent keys are not written.
TouchesOutside(fields, start, from, to, reading, value) ==
  \E i \in 1..Len(fields) :
    LET f == fields[i]
        off == start + f.byteOffset
        v == GetProp(value, f.name)
        len == IF ~reading /\ f.type = "raw" /\ v.t = "bytes" THEN Len(v.v) ELSE f.byteLength
    IN /\ reading \/ v.t # "undefined"
       /\ \/ f.type \in LeafTypes /\ len > 0 /\ (off < from \/ off + len > to)
          \/ /\ f.type = "object"
             /\ TouchesOutside(f.fields, off, off, off + f.byteLength, reading, v)
          \/ /\ f.type = "array" /\ f.item # <<>>
             /\ \E j \in 0..(ArrayCount(f.byteLength, f.item[1].byteLength) - 1) :
                  TouchesOutside(<<[f.item[1] EXCEPT !.name = "arrayItem", !.byteOffset = 0]>>,
                                 off + j * f.item[1].byteLength, off, off + f.byteLength,
                                 reading, VObj([arrayItem |-> GetIndex(v, j)]))

\* C24 as stated, for the built-in codecs: when static validation of the spec
\* reports no Fatal diagnostic and, for a decode, the buffer has at least spec.byteLength
\* bytes, every byte a call reads or writes for a field lies inside the
\* field's container, hence inside the buffer: no access fails with a
\* RangeError, and a call that returns has touched nothing outside the
\* containers
C24_NoFatalKeepsAccessInside ==
  \A c \in Callers :
    LET k == call[c]
        spec == CallSpec(k)
    IN (/\ Ended(k) /\ registry = getDefaultRegistry /\ spec.hasFields
        /\ ~HasFatal(validateCodecSpec(spec, registry))
        /\ k.op = "decode" => Len(CallBuffer(k)) >= spec.byteLength) =>
         /\ k.error # "RangeError"
         /\ k.pc = "done" =>
              ~TouchesOutside(spec.fields, 0, 0, spec.byteLength, k.op = "decode",
                              IF k.op = "decode" THEN Undef ELSE CallValue(k))

(***************************************************************************)
(* C25: the byte order of array items                                      *)
(***************************************************************************)
\* item i (0-based) of the array field, laid out as a field of the array's
\* container next to the array
SiblingOfItem(array, i) ==
  [array.item[1] EXCEPT !.name = "sibling",
                        !.byteOffset = array.byteOffset + i * array.item[1].byteLength]

\* the arrays of multi-byte numbers or bitmasks, with no byte order of their
\* own, among the fields of the object
OrderlessArrays(object) ==
  {i \in 1..Len(object.fields) :
     LET f == object.fields[i]
     IN /\ f.type = "array" /\ f.item # <<>>
        /\ f.item[1].type \in {"number", "bitmask"}
        /\ f.item[1].byteLength > 1
        /\ f.item[1].littleEndian = "undefined"}

\* C25 as stated: in a little-endian object, the items of an array of
\* multi-byte numbers that set no byte order are decoded and encoded as a
\* field of the same type placed in the object at the item's offset is:
\* little-endian
C25_ArrayItemsInheritByteOrder ==
  \A c \in Callers :
    LET k == call[c]
    IN (k.pc = "done" /\ k.field # <<>> /\ k.field.type = "object"
        /\ k.field.littleEndian = "true") =>
         \A i \in OrderlessArrays(k.field) :
           LET array == k.field.fields[i]
               n == ArrayCount(array.byteLength, array.item[1].byteLength)
           IN \A j \in 0..(n - 1) :
                LET sibling == SiblingOfItem(array, j)
                    at == k.field.byteOffset + sibling.byteOffset
                IN IF k.op = "read"
                   THEN GetIndex(GetProp(k.result, array.name), j)
                          = objectReadField(registry, k.buf, k.field, sibling).v
                   ELSE GetProp(k.value, array.name).t = "array" =>
                          Slice(k.buf, at, sibling.byteLength)
                            = Slice(objectWriteField(registry, k.before, k.field, sibling,
                                      VObj([sibling |-> GetIndex(GetProp(k.value, array.name), j)])).buf,
                                    at, sibling.byteLength)

(***************************************************************************)
(* C26: termination                                                        *)
(***************************************************************************)
\* A call runs to completion: the engine keeps executing the call it has
\* begun, so a step of the call that changes the state is eventually taken.
Fairness == WF_vars(Step(1))

\* the catalog entries whose calls are followed to their end: the end-to-end
\* scenario, a nested object with an array, and an array whose item has no
\* bytes
LiveEntries == {1, 14, 27}

BeginLive(c) ==
  \E sid \in LiveEntries, validate \in BOOLEAN, throwOnFatal \in BOOLEAN,
     hasSink \in BOOLEAN :
    \/ \E iid \in 1..Len(Catalog[sid].buffers) :
         Begin(c, "decode", sid, iid, validate, throwOnFatal, hasSink)
    \/ \E iid \in 1..Len(Catalog[sid].values) :
         Begin(c, "encode", sid, iid, validate, throwOnFatal, hasSink)

NextLive ==
  \/ BeginLive(1)
  \/ Step(1)

SpecLive == Init /\ [][NextLive]_vars /\ Fairness

\* C26 as stated: every call that has begun, whatever its spec, buffer,
\* value and options, eventually returns or fails
C26_EveryCallEnds ==
  \A c \in Callers : (call[c].pc # "idle") ~> Ended(call[c])

(***************************************************************************)
(* C27: extractBits, called on its own (src/utils/bitUtils.ts)             *)
(***************************************************************************)
\* the integers the bits are taken from: 0b1100110110110011 of the
\* documentation among them, all below 2^31
BitValues == {5, 179, 52659, 2147483647}

BitByteLengths == {1, 2, 4}

\* the values a field of byteLength bytes can hold
BitValuesOf(byteLength) ==
  {v \in BitValues : byteLength = 4 \/ v < Pow2(8 * byteLength)}

\* extractBits(value, a, b) or, for a single position, extractBitValue(value, p)
ExtractCall(c) ==
  \E byteLength \in BitByteLengths :
    \E value \in BitValuesOf(byteLength), a \in 0..(8 * byteLength - 1) :
      \E bits \in {<<a>>} \cup {<<a, b>> : b \in 0..(8 * byteLength - 1)} :
        /\ call[c].pc = "idle"
        /\ call' = [call EXCEPT ![c] =
             [IdleCall EXCEPT !.pc = "called", !.op = "extract", !.value = VNum(value),
                              !.field = [bits |-> bits, byteLength |-> byteLength]]]
        /\ UNCHANGED <<registry, base, log>>

ExtractRun(c) ==
  /\ call[c].pc = "called"
  /\ call' = [call EXCEPT ![c].pc = "done",
                          ![c].result = VNum(extractBitValue(call[c].value.v, call[c].field.bits))]
  /\ UNCHANGED <<registry, base, log>>

NextBits ==
  \/ ExtractCall(1)
  \/ ExtractRun(1)
  \/ Finish(1)

SpecBits == Init /\ [][NextBits]_vars

\* bits low..high of a value below 2^31, moved down to bit 0
BitsOfValue(value, low, high) ==
  IF low = 31 THEN 0
  ELSE IF high - low + 1 >= 31 THEN value \div Pow2(low)
  ELSE (value \div Pow2(low)) % Pow2(high - low + 1)

\* C27 as stated: extractBits(value, a, b) is the bits min(a, b)..max(a, b)
\* of the value, moved down to bit 0, in either order of the pair and for
\* every range inside a field of 1, 2 or 4 bytes; a single position p gives
\* bit p
C27_ExtractBitsReturnsRange ==
  \A c \in Callers :
    LET k == call[c]
    IN (k.pc = "done" /\ k.op = "extract") =>
         LET a == k.field.bits[1]
             b == k.field.bits[Len(k.field.bits)]
         IN k.result = VNum(BitsOfValue(k.value.v, Min(a, b), Max(a, b)))

(***************************************************************************)
(* C28: enum entries with more values than their bits can number           *)
(***************************************************************************)
\* C28 as stated: for every enum entry of a root bitmask field, static
\* validation reports one Error TOO_MANY_ENUM_VALUES at the entry when its
\* values are more than 2^width, width being the number of bits of its
\* position (1) or range, and none otherwise
C28_TooManyEnumValuesReported ==
  \A c \in Callers :
    LET k == call[c]
        spec == CallSpec(k)
        results == validateCodecSpec(spec, registry)
    IN (Validated(k) /\ registry = getDefaultRegistry) =>
         \A i \in 1..Len(spec.fields) :
           spec.fields[i].type = "bitmask" =>
             \A j \in 1..Len(spec.fields[i].map) :
               LET bitField == spec.fields[i].map[j]
                   path == "fields[" \o ToString(i - 1) \o "].map." \o bitField.key
               IN bitField.type = "enum" =>
                    /\ CountAt(results, "TOO_MANY_ENUM_VALUES", path)
                         = IF Len(bitField.values) > Pow2(Cardinality(BitsOf(bitField)))
                           THEN 1 ELSE 0
                    /\ \A n \in 1..Len(results) :
                         results[n].code = "TOO_MANY_ENUM_VALUES" => results[n].level = ERROR

(***************************************************************************)
(* C29: the root-level checks                                              *)
(***************************************************************************)
\* C29 as stated: static validation of a spec whose field list is missing or
\* empty, or whose byteLength is not positive, returns a list that holds at
\* least one diagnostic
C29_RootInvariantsReported ==
  \A c \in Callers :
    LET k == call[c]
        spec == CallSpec(k)
        results == validateCodecSpec(spec, registry)
    IN (Validated(k)
        /\ (~spec.hasFields \/ Len(spec.fields) = 0 \/ spec.byteLength <= 0)) =>
         IF results = HookThrew THEN FALSE ELSE Len(results) >= 1

(***************************************************************************)
(* C30: what bitmaskCodec.write puts into the integer                      *)
(***************************************************************************)
\* the raw bit value of an entry: the number, 0/1 for a boolean, the index
\* of the name for an enum
RawBitValue(bitField, fieldValue) ==
  IF bitField.type = "enum" THEN IndexOf(bitField.values, fieldValue)
  ELSE ToIntegerOrZero(fieldValue)

\* bit n (0..31) of the integer the bytes hold, most significant byte first
\* (the bitmask fields of the catalog are big-endian)
BitOfBytes(bytes, n) == (bytes[Len(bytes) - (n \div 8)] \div Pow2(n % 8)) % 2

\* the low bits of the entry's raw value moved to the entry's bits: bit n of
\* the contribution is bit n - low of the value inside the range, 0 outside
ContributionBit(bitField, fieldValue, n) ==
  LET low == Min(bitField.bits[1], bitField.bits[Len(bitField.bits)])
  IN IF fieldValue.t # "undefined" /\ n \in BitsOf(bitField)
     THEN BitOf(RawBitValue(bitField, fieldValue), n - low)
     ELSE 0

\* C30 as stated: the integer a root bitmask field is written as is the OR
\* of its entries' contributions, each the entry's raw value masked to the
\* width of its position or range and moved there (0 for an absent key); no
\* entry sets a bit outside its own bits
C30_WriteMasksToWidth ==
  \A c \in Callers :
    LET k == call[c]
        spec == CallSpec(k)
    IN (k.op = "encode" /\ k.pc = "done" /\ registry = getDefaultRegistry) =>
         \A i \in 1..Len(spec.fields) :
           LET f == spec.fields[i]
               v == GetProp(CallValue(k), f.name)
           IN (f.type = "bitmask" /\ v.t = "object") =>
                \A n \in 0..(8 * f.byteLength - 1) :
                  BitOfBytes(Slice(k.buf, f.byteOffset, f.byteLength), n) = 1
                    <=> \E j \in 1..Len(f.map) :
                          ContributionBit(f.map[j], GetProp(v, f.map[j].key), n) = 1

====
